---------------------------- MODULE Spec2Model ----------------------------
(***************************************************************************)
(* Scroll-synchronised animation orchestration of the Demon-Slayer site:   *)
(* the LenisProvider frame loop, the per-section gsap contexts, and the    *)
(* scroll-trigger registrations (toggle, scrub, pin) and counters made by  *)
(* src/lib/animations.ts and by the section components; then the ticker's  *)
(* timing and listener order, the writers of the scroll position, helper   *)
(* calls with missing elements, failures inside a section's effect, and    *)
(* what ctx.revert() does to a section's elements; then the clip-path     *)
(* mask reveal, Lenis' eased scroll animation, the character carousel      *)
(* (index, autoplay interval, drag) and the Navbar's scroll handler.       *)
(*                                                                         *)
(* Time is counted in ticks of 0.1 s, so a duration written in the source  *)
(* as 0.4 is 4 ticks.  A ticker frame advances time by 1..MaxFrameTicks    *)
(* ticks (LenisProvider sets lagSmoothing(0), so gsap does not clamp the   *)
(* elapsed time of a frame).                                               *)
(***************************************************************************)
EXTENDS Integers, Sequences, FiniteSets, TLC

VARIABLES
    \* ---- LenisProvider (src/components/LenisProvider.tsx)
    providerMounted,   \* a LenisProvider effect is currently mounted
    lenisCount,        \* number of Lenis instances constructed so far
    lenisDestroyed,    \* instances on which destroy() has been called
    lenisRef,          \* lenisRef.current: 0 is null, else the instance
    ticker,            \* gsap.ticker listeners added by the provider, in order
    rafCalledOn,       \* instances whose raf() ran in the last ticker frame
    lenisTarget,       \* per instance: targetScroll
    lenisScroll,       \* per instance: animatedScroll
    scrollY,           \* the document scroll offset
    \* ---- BreathingSection (src/unnamed/part_000)
    bsMounted,         \* the section's effect is mounted
    bsReverted,        \* ctx.revert() has run since the last mount
    bsCtx,             \* animations recorded by the section's gsap.context
    bsIdle,            \* nodes still driven by the idle breathing tween
    bsHover,           \* per node: the hover tween started by a handler
    bsHovered,         \* hoveredStyle: 0 is null, else the node index
    bsWriters,         \* per node: tweens that wrote its scale last frame
    \* ---- a toggle registration (one-shot tween with a scrollTrigger)
    tgKind,            \* "none", or which registration is installed
    tgTop,             \* document offset of the trigger element's top edge
    tgZone,            \* ScrollTrigger progress: 0 is 0, 1 is inside (0,1), 2 is 1
    tgTime,            \* the tween's playhead, in ticks
    tgDelayLeft,       \* ticks of the tween's delay not yet elapsed
    tgPaused,          \* tween.paused()
    tgReversed,        \* tween.reversed()
    tgSince,           \* ticks rendered since the trigger last changed zone
    tgCrossings,       \* times the offset crossed the start boundary
    \* ---- a scrub registration (tween whose progress follows the scroll)
    scKind,            \* "none", or which registration is installed
    scTop,             \* document offset of the trigger element's top edge
    scTrig,            \* ScrollTrigger progress, in 1/PScale
    scProg,            \* the animation's progress, in 1/PScale
    scFrom,            \* scrub tween: progress it started from
    scTo,              \* scrub tween: progress it is heading to
    scElapsed,         \* scrub tween: ticks rendered since its restart
    scSince,           \* ticks rendered since the trigger progress last changed
    \* ---- the pinned horizontal scroll (horizontalScroll, TimelineSection)
    pnKind,            \* "none", "horizontalScroll" or "timeline"
    pnContentW,        \* layout: scrollContent.scrollWidth
    pnClientW,         \* layout: container.clientWidth
    pnScrollWidth,     \* const scrollWidth, measured at registration
    pnStart,           \* trigger start offset
    pnEnd,             \* trigger end offset
    pnTrig,            \* ScrollTrigger progress, in 1/PnDen
    pnProg,            \* the tween's progress, in 1/PnDen
    pnFrom,            \* scrub tween: progress it started from
    pnTo,              \* scrub tween: progress it is heading to
    pnElapsed,         \* scrub tween: ticks rendered since its restart
    pnPinned,          \* the container is fixed in the viewport
    pnResized,         \* the viewport was resized since registration
    \* ---- a counter (counterAnimation, ImpactSection, MangaSection)
    ctKind,            \* "none", "counterAnimation", "impact" or "manga"
    ctTarget,          \* the number counted up to
    ctPrefix,          \* prefix, as a sequence of characters
    ctSuffix,          \* suffix, as a sequence of characters
    ctLocale,          \* the browser's default locale
    ctZone,            \* ScrollTrigger progress zone, as tgZone
    ctTime,            \* the tween's playhead, in ticks
    ctPaused,          \* tween.paused()
    ctReversed,        \* tween.reversed()
    ctShown,           \* Math.round(obj.value) at the last onUpdate, -1 before any
    ctText,            \* the element's textContent, as a sequence of characters
    \* ---- gsap.ticker timing under lagSmoothing (LenisProvider.tsx:39)
    lgMounted,         \* the provider's effect has run
    lgThreshold,       \* _lagThreshold, in frames of 1/30 s; 0 is Infinity
    lgAdjusted,        \* _adjustedLag, in frames of 1/30 s
    lgTweenTime,       \* playhead of a running tween, -1 when none runs
    lgLenisTime,       \* currentTime of Lenis' scroll animation, -1 when idle
    lgElapsed,         \* wall-clock time between the last two ticker frames
    lgApplied,         \* time by which the last frame advanced the animations
    \* ---- the order of work inside one ticker frame
    foListeners,       \* gsap.ticker's listeners, in calling order
    foPc,              \* listeners already called in the running frame; 0 between frames
    foKind,            \* "none", or the kind of the registered scroll-driven tween
    foTarget,          \* Lenis' targetScroll
    foScroll,          \* Lenis' animatedScroll, the document scroll offset
    foSeen,            \* the offset the last ScrollTrigger.update evaluated
    foApplied,         \* the offset the progress last applied to the DOM derives from
    foOrder,           \* the steps of the running (or last) frame, in order
    \* ---- the writers of the document scroll position
    swMounted,         \* Lenis is running
    swTarget,          \* Lenis' targetScroll
    swAnimated,        \* Lenis' animatedScroll
    swIsScrolling,     \* Lenis' isScrolling
    swNative,          \* target of the browser's smooth scroll, -1 when none runs
    swScrollY,         \* the document scroll offset
    swWriters,         \* who wrote the offset in the last frame
    \* ---- a helper of animations.ts called with a missing element
    nlHelper,          \* "none", or the helper that was called
    nlNullTarget,      \* its element (scrollContent) argument was null
    nlNullTrigger,     \* its trigger (container) argument was null
    nlRegistered,      \* the call returned a tween
    nlTime,            \* the tween's playhead, -1 while it waits for its trigger
    nlThrown,          \* "none", or where an exception propagated from
    \* ---- a section's registrations under a failure in one of them
    frSection,         \* "none", or the section whose effect ran
    frRegistered,      \* indices of the registrations that were made
    frFaultAt,         \* index of the registration that threw, 0 if none
    frUpdateFault,     \* index of the region whose update throws, 0 if none
    frDriven,          \* regions rendered in the last frame
    frRafRan,          \* the provider's listener ran in the last frame
    frTime,            \* ticks rendered since the section mounted
    \* ---- a section's gsap.context and the inline styles of its elements
    sxSection,         \* "none", or the section being followed
    sxPhase,           \* "unmounted", "mounted", "skipped" or "reverted"
    sxData,            \* the animations the context has recorded, by element
    sxLive,            \* the tweens still alive, by element
    sxTriggers,        \* the ScrollTriggers still registered, by element
    sxStyle,           \* per element: -1, or the progress written inline
    sxTime,            \* ticks the section's animation has played
    sxPlaying,         \* the section's animation is playing
    sxReverts,         \* calls of the cleanup since the last mount
    \* ---- createGsapContext and the helpers' animations
    gcCtx,             \* "none", "open" or "reverted"
    gcData,            \* the animations the context has recorded, by helper
    gcLive,            \* the tweens still alive, by helper
    gcTriggers,        \* the ScrollTriggers still registered, by helper
    gcRendered,        \* the tweens rendered in the last frame
    \* ---- a clip-path mask reveal (maskReveal, the Hero headline)
    mkKind,            \* "none", "maskReveal" or "heroHeadline"
    mkDuration,        \* the tween's duration, in ticks
    mkDelayLeft,       \* ticks of its delay still to wait
    mkTime,            \* the tween's playhead, in ticks
    mkPaused,          \* the tween waits for its trigger
    mkReversed,        \* the tween runs backward
    mkClip,            \* the four numbers of the inline inset(), <<>> when unset
    \* ---- Lenis' eased scroll animation
    leMounted,         \* a Lenis instance exists
    leTimeSet,         \* the instance has seen a raf call (this.time is set)
    leRunning,         \* an animation is running
    leFrom,            \* the offset the animation started from
    leTo,              \* the offset it runs to
    leTime,            \* its currentTime, in ticks
    leValue,           \* animatedScroll
    leEased,           \* the eased fraction last applied, -1 when none was
    leInputs,          \* scroll inputs taken since the instance was made
    \* ---- the character carousel
    caActive,          \* activeIndex
    caAutoPlaying,     \* isAutoPlaying
    caReset,           \* autoPlayReset
    caDeps,            \* the dependencies the Auto-Play effect last ran with
    caTimers,          \* elapsed seconds of each interval that is set
    caHover,           \* the pointer is over the carousel
    caSinceManual,     \* seconds since the last manual navigation
    caOp,              \* the last thing that happened
    caDragOffset,      \* offset.x of the last drag
    caDragVelocity,    \* velocity.x of the last drag
    \* ---- the Navbar's scroll behaviour
    nvLast,            \* lastScrollY.current
    nvPrevLast,        \* lastScrollY.current before the last scroll event
    nvScrolled,        \* isScrolled
    nvHidden,          \* isHidden
    nvMobileOpen,      \* mobileOpen
    nvPrevOpen,        \* mobileOpen before the last event
    nvOp               \* the last event handled

lenisVars == <<providerMounted, lenisCount, lenisDestroyed, lenisRef, ticker,
               rafCalledOn, lenisTarget, lenisScroll, scrollY>>
bsVars == <<bsMounted, bsReverted, bsCtx, bsIdle, bsHover, bsHovered, bsWriters>>
tgVars == <<tgKind, tgTop, tgZone, tgTime, tgDelayLeft, tgPaused, tgReversed,
            tgSince, tgCrossings>>
scVars == <<scKind, scTop, scTrig, scProg, scFrom, scTo, scElapsed, scSince>>
pnVars == <<pnKind, pnContentW, pnClientW, pnScrollWidth, pnStart, pnEnd, pnTrig,
            pnProg, pnFrom, pnTo, pnElapsed, pnPinned, pnResized>>
ctVars == <<ctKind, ctTarget, ctPrefix, ctSuffix, ctLocale, ctZone, ctTime, ctPaused,
            ctReversed, ctShown, ctText>>
lgVars == <<lgMounted, lgThreshold, lgAdjusted, lgTweenTime, lgLenisTime, lgElapsed,
            lgApplied>>
foVars == <<foListeners, foPc, foKind, foTarget, foScroll, foSeen, foApplied, foOrder>>
swVars == <<swMounted, swTarget, swAnimated, swIsScrolling, swNative, swScrollY,
            swWriters>>
nlVars == <<nlHelper, nlNullTarget, nlNullTrigger, nlRegistered, nlTime, nlThrown>>
frVars == <<frSection, frRegistered, frFaultAt, frUpdateFault, frDriven, frRafRan,
            frTime>>
sxVars == <<sxSection, sxPhase, sxData, sxLive, sxTriggers, sxStyle, sxTime,
            sxPlaying, sxReverts>>
gcVars == <<gcCtx, gcData, gcLive, gcTriggers, gcRendered>>
mkVars == <<mkKind, mkDuration, mkDelayLeft, mkTime, mkPaused, mkReversed, mkClip>>
leVars == <<leMounted, leTimeSet, leRunning, leFrom, leTo, leTime, leValue, leEased,
            leInputs>>
caVars == <<caActive, caAutoPlaying, caReset, caDeps, caTimers, caHover,
            caSinceManual, caOp, caDragOffset, caDragVelocity>>
nvVars == <<nvLast, nvPrevLast, nvScrolled, nvHidden, nvMobileOpen, nvPrevOpen, nvOp>>
coreVars == <<lenisVars, bsVars, tgVars, scVars, pnVars, ctVars>>
ext1Vars == <<lgVars, foVars, swVars, nlVars, frVars, sxVars, gcVars>>
ext2Vars == <<mkVars, leVars, caVars, nvVars>>
extVars == <<ext1Vars, ext2Vars>>
vars == <<coreVars, extVars>>
lgOthers == <<foVars, swVars, nlVars, frVars, sxVars, gcVars, ext2Vars>>
foOthers == <<lgVars, swVars, nlVars, frVars, sxVars, gcVars, ext2Vars>>
swOthers == <<lgVars, foVars, nlVars, frVars, sxVars, gcVars, ext2Vars>>
nlOthers == <<lgVars, foVars, swVars, frVars, sxVars, gcVars, ext2Vars>>
frOthers == <<lgVars, foVars, swVars, nlVars, sxVars, gcVars, ext2Vars>>
sxOthers == <<lgVars, foVars, swVars, nlVars, frVars, gcVars, ext2Vars>>
gcOthers == <<lgVars, foVars, swVars, nlVars, frVars, sxVars, ext2Vars>>
mkOthers == <<ext1Vars, leVars, caVars, nvVars>>
leOthers == <<ext1Vars, mkVars, caVars, nvVars>>
caOthers == <<ext1Vars, mkVars, leVars, nvVars>>
nvOthers == <<ext1Vars, mkVars, leVars, caVars>>

(***************************************************************************)
(* Bounds of the model.                                                    *)
(***************************************************************************)
MaxMounts == 3
LenisMaxScroll == 3
MaxFrameTicks == 2

Min(a, b) == IF a < b THEN a ELSE b
Max(a, b) == IF a > b THEN a ELSE b
Range(s) == {s[i] : i \in DOMAIN s}

(***************************************************************************)
(* LenisProvider                                                           *)
(***************************************************************************)
LenisIds == 1..MaxMounts

LenisInit ==
    /\ providerMounted = FALSE
    /\ lenisCount = 0
    /\ lenisDestroyed = {}
    /\ lenisRef = 0
    /\ ticker = <<>>
    /\ rafCalledOn = {}
    /\ lenisTarget = [i \in LenisIds |-> 0]
    /\ lenisScroll = [i \in LenisIds |-> 0]
    /\ scrollY = 0

\* gsap.ticker.add(cb): the provider's anonymous callback, bound to its Lenis
TickerAdd(tk, id) == Append(tk, id)

\* The cleanup returned by the effect: lenis.destroy(); lenisRef.current = null.
\* It makes no call on gsap.ticker, so the listener list is what it was.
TickerAfterCleanup(tk, id) == tk

\* useEffect body of LenisProvider: new Lenis, lenis.on("scroll", ...),
\* gsap.ticker.add(...), gsap.ticker.lagSmoothing(0)
LenisMount ==
    /\ ~providerMounted
    /\ lenisCount < MaxMounts
    /\ providerMounted' = TRUE
    /\ lenisCount' = lenisCount + 1
    /\ lenisRef' = lenisCount + 1
    /\ ticker' = TickerAdd(ticker, lenisCount + 1)
    /\ lenisTarget' = [lenisTarget EXCEPT ![lenisCount + 1] = scrollY]
    /\ lenisScroll' = [lenisScroll EXCEPT ![lenisCount + 1] = scrollY]
    /\ UNCHANGED <<lenisDestroyed, rafCalledOn, scrollY>>
    /\ UNCHANGED <<bsVars, tgVars, scVars, pnVars, ctVars, extVars>>

\* The effect's cleanup
LenisUnmount ==
    /\ providerMounted
    /\ providerMounted' = FALSE
    /\ lenisDestroyed' = lenisDestroyed \cup {lenisRef}
    /\ lenisRef' = 0
    /\ ticker' = TickerAfterCleanup(ticker, lenisRef)
    /\ UNCHANGED <<lenisCount, rafCalledOn, lenisTarget, lenisScroll, scrollY>>
    /\ UNCHANGED <<bsVars, tgVars, scVars, pnVars, ctVars, extVars>>

\* A wheel event reaches the live instance (destroy() removed the listeners
\* of the others): the target moves by delta, clamped to the page.
LenisWheel(delta) ==
    /\ lenisRef # 0
    /\ lenisTarget' = [lenisTarget EXCEPT
         ![lenisRef] = Max(0, Min(LenisMaxScroll, @ + delta))]
    /\ lenisTarget' # lenisTarget
    /\ UNCHANGED <<providerMounted, lenisCount, lenisDestroyed, lenisRef, ticker,
                   rafCalledOn, lenisScroll, scrollY>>
    /\ UNCHANGED <<bsVars, tgVars, scVars, pnVars, ctVars, extVars>>

\* lenis.raf(time): the running scroll animation advances towards the target
RafStep(cur, tgt) == IF cur < tgt THEN cur + 1 ELSE IF cur > tgt THEN cur - 1 ELSE cur

\* the scroll offset after the listeners tk ran in order, each writing the
\* document scroll when its instance's animation moved
RECURSIVE ScrollAfter(_, _)
ScrollAfter(tk, y) ==
    IF tk = <<>> THEN y
    ELSE LET id == Head(tk)
             moved == lenisScroll[id] # lenisTarget[id]
         IN ScrollAfter(Tail(tk),
                IF moved THEN RafStep(lenisScroll[id], lenisTarget[id]) ELSE y)

\* One gsap.ticker frame: every registered listener runs, (time) => lenis.raf(time * 1000)
TickerFrame ==
    /\ rafCalledOn' = Range(ticker)
    /\ lenisScroll' = [i \in LenisIds |->
          IF i \in Range(ticker) THEN RafStep(lenisScroll[i], lenisTarget[i])
          ELSE lenisScroll[i]]
    /\ scrollY' = ScrollAfter(ticker, scrollY)
    /\ UNCHANGED <<providerMounted, lenisCount, lenisDestroyed, lenisRef, ticker,
                   lenisTarget>>
    /\ UNCHANGED <<bsVars, tgVars, scVars, pnVars, ctVars, extVars>>

NextLenis ==
    \/ LenisMount
    \/ LenisUnmount
    \/ \E delta \in {-2, -1, 1, 2} : LenisWheel(delta)
    \/ TickerFrame

(***************************************************************************)
(* BreathingSection: gsap.context and the hover handlers                   *)
(***************************************************************************)
NumNodes == 6
HoverEnterTicks == 4
HoverLeaveTicks == 5

Nodes == 1..NumNodes
NoTween == [kind |-> "none", left |-> 0]

BreathingInit ==
    /\ bsMounted = FALSE
    /\ bsReverted = FALSE
    /\ bsCtx = {}
    /\ bsIdle = {}
    /\ bsHover = [n \in Nodes |-> NoTween]
    /\ bsHovered = 0
    /\ bsWriters = [n \in Nodes |-> {}]

\* What gsap.context(fn, scope) records: the animations created while fn
\* runs.  The handlers run later, outside any context function.
CtxRecorded == {"reveal", "idle", "centerPulse"}

\* Hover tweens still alive after ctx.revert(): revert() kills what the
\* context recorded, and the handlers' tweens were never recorded
HoverAfterRevert(h) == h

\* useEffect body: gsap.context(() => { set, timeline, idle loop, pulse })
BsMount ==
    /\ ~bsMounted
    /\ bsMounted' = TRUE
    /\ bsReverted' = FALSE
    /\ bsCtx' = CtxRecorded
    /\ bsIdle' = Nodes
    /\ UNCHANGED <<bsHover, bsHovered, bsWriters>>
    /\ UNCHANGED <<lenisVars, tgVars, scVars, pnVars, ctVars, extVars>>

\* return () => ctx.revert()
BsUnmount ==
    /\ bsMounted
    /\ bsMounted' = FALSE
    /\ bsReverted' = TRUE
    /\ bsCtx' = {}
    /\ bsIdle' = {}
    /\ bsHover' = HoverAfterRevert(bsHover)
    /\ bsHovered' = 0
    /\ bsWriters' = [n \in Nodes |-> {}]
    /\ UNCHANGED <<lenisVars, tgVars, scVars, pnVars, ctVars, extVars>>

\* handleMouseEnter(index, style): enhance the node, dim its peers
BsMouseEnter(index) ==
    /\ bsMounted
    /\ bsHovered = 0
    /\ bsHovered' = index
    /\ bsHover' = [n \in Nodes |->
          IF n = index THEN [kind |-> "enhance", left |-> HoverEnterTicks]
          ELSE [kind |-> "dim", left |-> HoverEnterTicks]]
    /\ UNCHANGED <<bsMounted, bsReverted, bsCtx, bsIdle, bsWriters>>
    /\ UNCHANGED <<lenisVars, tgVars, scVars, pnVars, ctVars, extVars>>

\* handleMouseLeave(): reset all nodes
BsMouseLeave ==
    /\ bsMounted
    /\ bsHovered # 0
    /\ bsHovered' = 0
    /\ bsHover' = [n \in Nodes |-> [kind |-> "reset", left |-> HoverLeaveTicks]]
    /\ UNCHANGED <<bsMounted, bsReverted, bsCtx, bsIdle, bsWriters>>
    /\ UNCHANGED <<lenisVars, tgVars, scVars, pnVars, ctVars, extVars>>

\* One ticker frame of dt ticks for the section's tweens.  A hover tween has
\* overwrite: "auto": on its first render it kills the scale part of the
\* other active tweens of its target, the idle loop's included.
BsFrame(dt) ==
    /\ \/ bsIdle # {}
       \/ \E n \in Nodes : bsHover[n].kind # "none"
    /\ bsIdle' = {n \in bsIdle : bsHover[n].kind = "none"}
    /\ bsHover' = [n \in Nodes |->
          IF bsHover[n].kind = "none" \/ bsHover[n].left <= dt THEN NoTween
          ELSE [bsHover[n] EXCEPT !.left = @ - dt]]
    /\ bsWriters' = [n \in Nodes |->
          (IF n \in bsIdle' THEN {"idle"} ELSE {})
          \cup (IF bsHover[n].kind # "none" THEN {bsHover[n].kind} ELSE {})]
    /\ UNCHANGED <<bsMounted, bsReverted, bsCtx, bsHovered>>
    /\ UNCHANGED <<lenisVars, tgVars, scVars, pnVars, ctVars, extVars>>

NextBreathing ==
    \/ BsMount
    \/ BsUnmount
    \/ \E index \in Nodes : BsMouseEnter(index)
    \/ BsMouseLeave
    \/ \E dt \in 1..MaxFrameTicks : BsFrame(dt)

(***************************************************************************)
(* Toggle registrations: a one-shot tween gated by a ScrollTrigger         *)
(* Offsets are in units of 200 px.                                         *)
(***************************************************************************)
ViewportH == 5
ElemHeight == 4
MaxTop == 7
MaxScroll == 12
MaxCrossings == 3

\* The registrations modelled: the four toggle helpers of animations.ts, the
\* crimson separator of ImpactSection, and the second header child of
\* CharactersSection
HelperKinds == {"fadeInUp", "staggerFadeIn", "counterAnimation", "maskReveal"}
ToggleKinds == HelperKinds \cup {"separator", "charHeader"}

\* toggleActions: onEnter, onLeave, onEnterBack, onLeaveBack.  A scrollTrigger
\* given no toggleActions has ScrollTrigger's default.
ReverseOnLeaveBack == <<"play", "none", "none", "reverse">>
DefaultToggleActions == <<"play", "none", "none", "none">>

ToggleActionsOmitted(kind) == DefaultToggleActions

ToggleActions(kind) ==
    IF kind \in HelperKinds THEN ReverseOnLeaveBack ELSE DefaultToggleActions

\* duration, in ticks
TgDuration(kind) ==
    CASE kind = "fadeInUp" -> 10
      [] kind = "staggerFadeIn" -> 8
      [] kind = "counterAnimation" -> 20
      [] kind = "maskReveal" -> 12
      [] kind = "separator" -> 15
      [] kind = "charHeader" -> 12

\* delay, in ticks
TgDelay(kind) == IF kind = "charHeader" THEN 2 ELSE 0

\* start: "top N%"
TgStartPercent(kind) ==
    CASE kind \in {"fadeInUp", "staggerFadeIn", "charHeader"} -> 85
      [] kind \in {"counterAnimation", "maskReveal"} -> 80
      [] kind = "separator" -> 70

\* The scroll offset at which the trigger's top edge is N% down the viewport.
\* Offsets are whole units, so comparing with the rounded-down boundary is
\* comparing with the boundary.
StartOffset(top, percent) == top - ((ViewportH * percent) \div 100)

\* end is not given: ScrollTrigger's default "bottom top"
EndOffset(top) == top + ElemHeight

TgStart == StartOffset(tgTop, TgStartPercent(tgKind))
TgEnd == EndOffset(tgTop)

\* ScrollTrigger progress at offset o, as the zone it lies in
Zone(o, start, end) == IF o <= start THEN 0 ELSE IF o >= end THEN 2 ELSE 1

\* A ScrollTrigger that ran its callback on every update instead of on a
\* change of state
ToggleActionEveryUpdate(ta, prev, cur) ==
    IF cur = 1 THEN ta[1] ELSE IF cur = 2 THEN ta[2] ELSE ta[4]

\* ScrollTrigger.update for a toggle trigger: the callback index when the
\* progress went from zone prev to zone cur (0 enter, 1 leave, 2 enterBack,
\* 3 leaveBack)
ToggleState(prev, cur) ==
    IF cur # 0 /\ prev = 0 THEN 0
    ELSE IF cur = 2 THEN 1
    ELSE IF prev = 2 THEN 2
    ELSE 3

\* ... and the action it takes: when the progress shot past the active zone
\* the following callback's action is taken if it is not "none"
ToggleAction(ta, prev, cur) ==
    LET ts == ToggleState(prev, cur)
        toggled == (cur = 1) # (prev = 1)
        stateChanged == toggled \/ ((cur # 0) # (prev # 0))
    IN IF ~stateChanged THEN "none"
       ELSE IF ~toggled /\ ts < 3 /\ ta[ts + 2] # "none" THEN ta[ts + 2]
       ELSE ta[ts + 1]

ToggleInit ==
    /\ tgKind = "none"
    /\ tgTop = 0
    /\ tgZone = 0
    /\ tgTime = 0
    /\ tgDelayLeft = 0
    /\ tgPaused = TRUE
    /\ tgReversed = FALSE
    /\ tgSince = 0
    /\ tgCrossings = 0

\* Registration at section mount, page at the top: gsap.fromTo / gsap.from /
\* gsap.to with a scrollTrigger.  The tween renders its start state and waits,
\* paused, for its trigger.
TgRegister(kind, top) ==
    /\ tgKind = "none"
    /\ scrollY = 0
    /\ tgKind' = kind
    /\ tgTop' = top
    /\ tgZone' = 0
    /\ tgTime' = 0
    /\ tgDelayLeft' = TgDelay(kind)
    /\ tgPaused' = TRUE
    /\ tgReversed' = FALSE
    /\ tgSince' = 0
    /\ tgCrossings' = 0
    /\ UNCHANGED <<lenisVars, bsVars, scVars, pnVars, ctVars, extVars>>

\* One ticker frame of dt ticks in which the scroll offset becomes o: gsap
\* renders the tween, then the provider's listener runs lenis.raf, whose
\* "scroll" event calls ScrollTrigger.update.
TgFrame(dt, o) ==
    /\ tgKind # "none"
    /\ LET playing == ~tgPaused /\ ~tgReversed
           wait == IF playing THEN Min(dt, tgDelayLeft) ELSE 0
           zone == Zone(o, TgStart, TgEnd)
           action == ToggleAction(ToggleActions(tgKind), tgZone, zone)
           crossed == (scrollY <= TgStart) # (o <= TgStart)
       IN /\ tgDelayLeft' = tgDelayLeft - wait
          /\ tgTime' = IF tgPaused THEN tgTime
                       ELSE IF tgReversed THEN Max(0, tgTime - dt)
                       ELSE Min(TgDuration(tgKind), tgTime + (dt - wait))
          /\ tgZone' = zone
          /\ tgPaused' = IF action \in {"play", "reverse"} THEN FALSE ELSE tgPaused
          /\ tgReversed' = IF action = "play" THEN FALSE
                           ELSE IF action = "reverse" THEN TRUE
                           ELSE tgReversed
          /\ tgSince' = IF crossed THEN 0
                        ELSE Min(TgDuration(tgKind) + TgDelay(tgKind), tgSince + dt)
          /\ tgCrossings' = IF crossed THEN Min(MaxCrossings, tgCrossings + 1)
                            ELSE tgCrossings
    /\ scrollY' = o
    /\ UNCHANGED <<tgKind, tgTop>>
    /\ UNCHANGED <<providerMounted, lenisCount, lenisDestroyed, lenisRef, ticker,
                   rafCalledOn, lenisTarget, lenisScroll>>
    /\ UNCHANGED <<bsVars, scVars, pnVars, ctVars, extVars>>

\* The section's cleanup, ctx.revert(): the tween and its trigger are killed
TgRevert ==
    /\ tgKind # "none"
    /\ tgKind' = "none"
    /\ tgTop' = 0
    /\ tgZone' = 0
    /\ tgTime' = 0
    /\ tgDelayLeft' = 0
    /\ tgPaused' = TRUE
    /\ tgReversed' = FALSE
    /\ tgSince' = 0
    /\ tgCrossings' = 0
    /\ scrollY' = 0
    /\ UNCHANGED <<providerMounted, lenisCount, lenisDestroyed, lenisRef, ticker,
                   rafCalledOn, lenisTarget, lenisScroll>>
    /\ UNCHANGED <<bsVars, scVars, pnVars, ctVars, extVars>>

NextToggle ==
    \/ \E kind \in ToggleKinds, top \in (MaxTop - 1)..MaxTop : TgRegister(kind, top)
    \/ \E dt \in 1..MaxFrameTicks, o \in 0..MaxScroll : TgFrame(dt, o)
    \/ TgRevert

(***************************************************************************)
(* Scrub registrations: a tween whose progress follows the scroll offset   *)
(***************************************************************************)
PScale == 8

\* parallax and slowZoom of animations.ts (the Hero background zoom has
\* slowZoom's trigger and scrub), the WorldSection overlay and moon, the
\* FinalCTA overlay
ScrubKinds == {"parallax", "slowZoom", "worldOverlay", "worldMoon", "ctaOverlay"}

\* scrub: true is 0 (no smoothing); scrub: n is n seconds of catch-up, in ticks
ScrubAlwaysSmoothed(kind) == 10

ScrubSmoothing(kind) ==
    CASE kind = "parallax" -> 10
      [] kind \in {"slowZoom", "worldMoon"} -> 20
      [] kind \in {"worldOverlay", "ctaOverlay"} -> 0

\* start: "top bottom" | "top top" | "top 50%"
ScStart(kind, top) ==
    CASE kind \in {"parallax", "worldMoon"} -> StartOffset(top, 100)
      [] kind = "slowZoom" -> StartOffset(top, 0)
      [] kind \in {"worldOverlay", "ctaOverlay"} -> StartOffset(top, 50)

\* end: "bottom top" | "bottom bottom"
ScEnd(kind, top) ==
    IF kind = "ctaOverlay" THEN top + ElemHeight - ViewportH ELSE top + ElemHeight

\* ScrollTrigger's progress for offset o: (o - start) / (end - start) clipped
\* to [0, 1]; an empty range counts as passed from its start on
ClampedProgress(o, start, end) ==
    IF end <= start THEN (IF o >= start THEN PScale ELSE 0)
    ELSE Max(0, Min(PScale, ((o - start) * PScale) \div (end - start)))

RECURSIVE Pow2(_)
Pow2(k) == IF k <= 0 THEN 1 ELSE 2 * Pow2(k - 1)

\* The scrub tween's ease ("expo" out): 1 - 2^(-10 p) at p = e / n, and 1 at
\* the end; in 1/1024, the exponent rounded down to a whole number
ExpoOut(e, n) == IF e >= n THEN 1024 ELSE 1024 - Pow2(10 - ((10 * e) \div n))

\* progress of the scrub tween from a to b after e of n ticks
ScrubTweenAt(a, b, e, n) ==
    IF e >= n THEN b ELSE a + (((b - a) * ExpoOut(e, n)) \div 1024)

ScTarget == ClampedProgress(scrollY, ScStart(scKind, scTop), ScEnd(scKind, scTop))

ScrubInit ==
    /\ scKind = "none"
    /\ scTop = 0
    /\ scTrig = 0
    /\ scProg = 0
    /\ scFrom = 0
    /\ scTo = 0
    /\ scElapsed = 0
    /\ scSince = 0

\* Registration at section mount, page at the top: the tween is created with
\* its scrollTrigger, whose first update puts the animation at the progress
\* of the current offset
ScRegister(kind, top) ==
    /\ scKind = "none"
    /\ scrollY = 0
    /\ LET p == ClampedProgress(0, ScStart(kind, top), ScEnd(kind, top))
       IN /\ scTrig' = p
          /\ scProg' = p
          /\ scFrom' = p
          /\ scTo' = p
    /\ scKind' = kind
    /\ scTop' = top
    /\ scElapsed' = ScrubSmoothing(kind)
    /\ scSince' = ScrubSmoothing(kind)
    /\ UNCHANGED <<lenisVars, bsVars, tgVars, pnVars, ctVars, extVars>>

\* One ticker frame of dt ticks in which the scroll offset becomes o: gsap
\* renders the scrub tween, then lenis.raf emits "scroll" and
\* ScrollTrigger.update either sets the animation's progress (scrub: true) or
\* restarts the scrub tween towards the new progress (scrub: n).
ScFrame(dt, o) ==
    /\ scKind # "none"
    /\ LET n == ScrubSmoothing(scKind)
           e == Min(n, scElapsed + dt)
           rendered == IF n = 0 THEN scProg ELSE ScrubTweenAt(scFrom, scTo, e, n)
           clipped == ClampedProgress(o, ScStart(scKind, scTop), ScEnd(scKind, scTop))
           changed == clipped # scTrig
       IN /\ scTrig' = clipped
          /\ scProg' = IF changed /\ n = 0 THEN clipped ELSE rendered
          /\ scFrom' = IF changed THEN rendered ELSE scFrom
          /\ scTo' = IF changed THEN clipped ELSE scTo
          /\ scElapsed' = IF changed THEN 0 ELSE e
          /\ scSince' = IF changed THEN 0 ELSE Min(n, scSince + dt)
    /\ scrollY' = o
    /\ UNCHANGED <<scKind, scTop>>
    /\ UNCHANGED <<providerMounted, lenisCount, lenisDestroyed, lenisRef, ticker,
                   rafCalledOn, lenisTarget, lenisScroll>>
    /\ UNCHANGED <<bsVars, tgVars, pnVars, ctVars, extVars>>

\* The section's cleanup, ctx.revert()
ScRevert ==
    /\ scKind # "none"
    /\ scKind' = "none"
    /\ scTop' = 0
    /\ scTrig' = 0
    /\ scProg' = 0
    /\ scFrom' = 0
    /\ scTo' = 0
    /\ scElapsed' = 0
    /\ scSince' = 0
    /\ scrollY' = 0
    /\ UNCHANGED <<providerMounted, lenisCount, lenisDestroyed, lenisRef, ticker,
                   rafCalledOn, lenisTarget, lenisScroll>>
    /\ UNCHANGED <<bsVars, tgVars, pnVars, ctVars, extVars>>

NextScrub ==
    \/ \E kind \in ScrubKinds, top \in (MaxTop - 1)..MaxTop : ScRegister(kind, top)
    \/ \E dt \in 1..MaxFrameTicks, o \in 0..MaxScroll : ScFrame(dt, o)
    \/ ScRevert

(***************************************************************************)
(* The pinned horizontal scroll: horizontalScroll (called without options) *)
(* and the TimelineSection effect, which repeats it inline                 *)
(***************************************************************************)
MaxContentW == 8
ViewportW == 5
PinTop == 2
PinScrub == 10

PinKinds == {"horizontalScroll", "timeline"}
ContentWidths == {MaxContentW - 5, MaxContentW - 3, MaxContentW}
ClientWidths == {ViewportW - 1, ViewportW}

\* const scrollWidth = scrollContent.scrollWidth - container.clientWidth
MeasuredScrollWidth(contentW, clientW) == contentW - clientW

\* What a refresh (at registration, and on resize) makes of the trigger's
\* end: the string the registration built, "+=" + scrollWidth, added to the
\* start and kept from falling before it
PinEndAfterRefresh(start, scrollWidth, contentW, clientW) ==
    Max(start, start + scrollWidth)

\* the tween's x at the end of its progress: the number -scrollWidth built at
\* registration
PinXTarget(scrollWidth, contentW, clientW) == -scrollWidth

PnRange == pnEnd - pnStart
PnDen == Max(1, PnRange)

\* A progress computed with no provision for an empty range: the distance
\* into the range, clamped to the range
PinProgressUnguarded(o, start, end) == Max(0, Min(end - start, o - start))

\* ScrollTrigger progress at offset o, in 1/PnDen.  An empty range is given a
\* nominal length at refresh (change = end - start || 0.001), so the quotient
\* is defined: 0 before the start, 1 from the start on.
PinProgress(o, start, end) ==
    IF end <= start THEN (IF o >= start THEN 1 ELSE 0)
    ELSE Max(0, Min(end - start, o - start))

\* the content's translation: ease "none", x from 0 to the target
PnX == (PinXTarget(pnScrollWidth, pnContentW, pnClientW) * pnProg) \div PnDen

\* The container's top edge relative to the viewport: 0 while pinned, else
\* its place in the flow (pushed down by the pin spacer once the range is
\* behind)
ContainerViewportTop ==
    IF pnPinned THEN 0
    ELSE PinTop + (IF scrollY >= pnEnd THEN PnRange ELSE 0) - scrollY

PinInit ==
    /\ pnKind = "none"
    /\ pnContentW = 0
    /\ pnClientW = 0
    /\ pnScrollWidth = 0
    /\ pnStart = 0
    /\ pnEnd = 0
    /\ pnTrig = 0
    /\ pnProg = 0
    /\ pnFrom = 0
    /\ pnTo = 0
    /\ pnElapsed = 0
    /\ pnPinned = FALSE
    /\ pnResized = FALSE

\* Registration at section mount, page at the top, the layout being
\* contentW / clientW: start "top top", end "+=" + scrollWidth, scrub: 1,
\* pin: true
PnRegister(kind, contentW, clientW) ==
    /\ pnKind = "none"
    /\ scrollY = 0
    /\ pnKind' = kind
    /\ pnContentW' = contentW
    /\ pnClientW' = clientW
    /\ pnScrollWidth' = MeasuredScrollWidth(contentW, clientW)
    /\ pnStart' = PinTop
    /\ pnEnd' = PinEndAfterRefresh(PinTop, MeasuredScrollWidth(contentW, clientW),
                                   contentW, clientW)
    /\ pnTrig' = 0
    /\ pnProg' = 0
    /\ pnFrom' = 0
    /\ pnTo' = 0
    /\ pnElapsed' = PinScrub
    /\ pnPinned' = FALSE
    /\ pnResized' = FALSE
    /\ UNCHANGED <<lenisVars, bsVars, tgVars, scVars, ctVars, extVars>>

\* One ticker frame of dt ticks in which the scroll offset becomes o
PnFrame(dt, o) ==
    /\ pnKind # "none"
    /\ LET e == Min(PinScrub, pnElapsed + dt)
           rendered == ScrubTweenAt(pnFrom, pnTo, e, PinScrub)
           clipped == PinProgress(o, pnStart, pnEnd)
           changed == clipped # pnTrig
       IN /\ pnTrig' = clipped
          /\ pnProg' = rendered
          /\ pnFrom' = IF changed THEN rendered ELSE pnFrom
          /\ pnTo' = IF changed THEN clipped ELSE pnTo
          /\ pnElapsed' = IF changed THEN 0 ELSE e
          /\ pnPinned' = (0 < clipped /\ clipped < PnDen)
    /\ scrollY' = o
    /\ UNCHANGED <<pnKind, pnContentW, pnClientW, pnScrollWidth, pnStart, pnEnd,
                   pnResized>>
    /\ UNCHANGED <<providerMounted, lenisCount, lenisDestroyed, lenisRef, ticker,
                   rafCalledOn, lenisTarget, lenisScroll>>
    /\ UNCHANGED <<bsVars, tgVars, scVars, ctVars, extVars>>

\* The viewport is resized to a new layout: ScrollTrigger refreshes, which
\* re-reads positions and re-parses the trigger's start and end, and updates
PnResize(contentW, clientW) ==
    /\ pnKind # "none"
    /\ <<contentW, clientW>> # <<pnContentW, pnClientW>>
    /\ pnContentW' = contentW
    /\ pnClientW' = clientW
    /\ pnResized' = TRUE
    /\ pnStart' = PinTop
    /\ pnEnd' = PinEndAfterRefresh(PinTop, pnScrollWidth, contentW, clientW)
    /\ LET den == Max(1, pnEnd' - pnStart')
           clipped == PinProgress(scrollY, pnStart', pnEnd')
           changed == clipped # pnTrig
       IN /\ pnTrig' = clipped
          /\ pnFrom' = IF changed THEN pnProg ELSE pnFrom
          /\ pnTo' = IF changed THEN clipped ELSE pnTo
          /\ pnElapsed' = IF changed THEN 0 ELSE pnElapsed
          /\ pnPinned' = (0 < clipped /\ clipped < den)
    /\ UNCHANGED <<pnKind, pnScrollWidth, pnProg>>
    /\ UNCHANGED <<lenisVars, bsVars, tgVars, scVars, ctVars, extVars>>

\* The section's cleanup, ctx.revert()
PnRevert ==
    /\ pnKind # "none"
    /\ pnKind' = "none"
    /\ pnContentW' = 0
    /\ pnClientW' = 0
    /\ pnScrollWidth' = 0
    /\ pnStart' = 0
    /\ pnEnd' = 0
    /\ pnTrig' = 0
    /\ pnProg' = 0
    /\ pnFrom' = 0
    /\ pnTo' = 0
    /\ pnElapsed' = 0
    /\ pnPinned' = FALSE
    /\ pnResized' = FALSE
    /\ scrollY' = 0
    /\ UNCHANGED <<providerMounted, lenisCount, lenisDestroyed, lenisRef, ticker,
                   rafCalledOn, lenisTarget, lenisScroll>>
    /\ UNCHANGED <<bsVars, tgVars, scVars, ctVars, extVars>>

NextPin ==
    \/ \E kind \in PinKinds, cw \in ContentWidths, cl \in ClientWidths :
          PnRegister(kind, cw, cl)
    \/ \E dt \in 1..MaxFrameTicks, o \in 0..MaxScroll : PnFrame(dt, o)
    \/ \E cw \in ContentWidths, cl \in ClientWidths : PnResize(cw, cl)
    \/ PnRevert

(***************************************************************************)
(* Counters: counterAnimation and its inline copies in ImpactSection and   *)
(* MangaSection                                                            *)
(***************************************************************************)
CounterKinds == {"counterAnimation", "impact", "manga"}
CounterTargets == {0, 4, 205, 1000, 12345}
Prefixes == {<<>>, <<"$">>}
Suffixes == {<<>>, <<"M", "+">>}
Locales == {"en-US", "de-DE"}

\* the counters' trigger: top of the stats block, start "top 80%"
CounterTop == MaxTop
CtStart == StartOffset(CounterTop, 80)
CtEnd == EndOffset(CounterTop)
\* offsets before the start, inside the range and past the end
CounterOffsets == {0, CtStart + 1, CtEnd}

\* duration, in ticks: 2 s by default, 2.5 s in ImpactSection, 2 s in MangaSection
CtDuration(kind) == IF kind = "impact" THEN 25 ELSE 20

\* An ease that overshoots its end value before settling (as "back.out")
EaseOvershoot(t, d) ==
    IF t >= d THEN d * d * d
    ELSE (d * d * d) - ((d - t) * (d - t) * (d - t)) + (d * t * (d - t))

\* ease "power2.out" (gsap's Power2 is the cubic) at t of d ticks,
\* 1 - (1 - t/d)^3, in 1/(d*d*d)
EasePower2Out(t, d) == (d * d * d) - ((d - t) * (d - t) * (d - t))

\* Math.round(target * ease): the nearest integer, halves up
RoundedValue(target, t, d) ==
    ((2 * target * EasePower2Out(t, d)) + (d * d * d)) \div (2 * d * d * d)

DigitChars == <<"0", "1", "2", "3", "4", "5", "6", "7", "8", "9">>

\* `${n}`: the decimal digits of a non-negative integer
RECURSIVE Decimal(_)
Decimal(n) ==
    IF n < 10 THEN <<DigitChars[n + 1]>>
    ELSE Decimal(n \div 10) \o <<DigitChars[(n % 10) + 1]>>

GroupSeparator(locale) == IF locale = "de-DE" THEN "." ELSE ","

\* three digits, zeros kept
Padded3(n) ==
    <<DigitChars[(n \div 100) + 1], DigitChars[((n \div 10) % 10) + 1],
      DigitChars[(n % 10) + 1]>>

\* n.toLocaleString(): the digits in groups of three, separated
RECURSIVE ToLocaleString(_, _)
ToLocaleString(n, locale) ==
    IF n < 1000 THEN Decimal(n)
    ELSE ToLocaleString(n \div 1000, locale) \o <<GroupSeparator(locale)>>
         \o Padded3(n % 1000)

\* the text onUpdate writes
CounterText(kind, prefix, suffix, locale, n) ==
    IF kind = "manga" THEN Decimal(n) \o suffix
    ELSE prefix \o ToLocaleString(n, locale) \o suffix

\* the element's text in the markup
MarkupText(kind, prefix, suffix) ==
    CASE kind = "impact" -> prefix \o <<"0">> \o suffix
      [] kind = "manga" -> <<"0">>
      [] OTHER -> <<>>

CounterInit ==
    /\ ctKind = "none"
    /\ ctTarget = 0
    /\ ctPrefix = <<>>
    /\ ctSuffix = <<>>
    /\ ctLocale = "en-US"
    /\ ctZone = 0
    /\ ctTime = 0
    /\ ctPaused = TRUE
    /\ ctReversed = FALSE
    /\ ctShown = -1
    /\ ctText = <<>>

\* Registration at section mount, page at the top: gsap.to(obj, { value:
\* target, scrollTrigger, onUpdate }).  MangaSection's elements carry no
\* data-prefix.
CtRegister(kind, target, prefix, suffix, locale) ==
    /\ ctKind = "none"
    /\ scrollY = 0
    /\ kind = "manga" => prefix = <<>>
    /\ ctKind' = kind
    /\ ctTarget' = target
    /\ ctPrefix' = prefix
    /\ ctSuffix' = suffix
    /\ ctLocale' = locale
    /\ ctZone' = 0
    /\ ctTime' = 0
    /\ ctPaused' = TRUE
    /\ ctReversed' = FALSE
    /\ ctShown' = -1
    /\ ctText' = MarkupText(kind, prefix, suffix)
    /\ UNCHANGED <<lenisVars, bsVars, tgVars, scVars, pnVars, extVars>>

\* One ticker frame of dt ticks in which the scroll offset becomes o: gsap
\* renders the tween, calling onUpdate when the playhead moved, then
\* ScrollTrigger.update takes the toggle action
CtFrame(dt, o) ==
    /\ ctKind # "none"
    /\ LET d == CtDuration(ctKind)
           t == IF ctPaused THEN ctTime
                ELSE IF ctReversed THEN Max(0, ctTime - dt)
                ELSE Min(d, ctTime + dt)
           n == RoundedValue(ctTarget, t, d)
           zone == Zone(o, CtStart, CtEnd)
           action == ToggleAction(ToggleActions("counterAnimation"), ctZone, zone)
       IN /\ ctTime' = t
          /\ ctShown' = IF t # ctTime THEN n ELSE ctShown
          /\ ctText' = IF t # ctTime
                       THEN CounterText(ctKind, ctPrefix, ctSuffix, ctLocale, n)
                       ELSE ctText
          /\ ctZone' = zone
          /\ ctPaused' = IF action \in {"play", "reverse"} THEN FALSE ELSE ctPaused
          /\ ctReversed' = IF action = "play" THEN FALSE
                           ELSE IF action = "reverse" THEN TRUE
                           ELSE ctReversed
    /\ scrollY' = o
    /\ UNCHANGED <<ctKind, ctTarget, ctPrefix, ctSuffix, ctLocale>>
    /\ UNCHANGED <<providerMounted, lenisCount, lenisDestroyed, lenisRef, ticker,
                   rafCalledOn, lenisTarget, lenisScroll>>
    /\ UNCHANGED <<bsVars, tgVars, scVars, pnVars, extVars>>

\* The section's cleanup, ctx.revert()
CtRevert ==
    /\ ctKind # "none"
    /\ ctKind' = "none"
    /\ ctTarget' = 0
    /\ ctPrefix' = <<>>
    /\ ctSuffix' = <<>>
    /\ ctLocale' = "en-US"
    /\ ctZone' = 0
    /\ ctTime' = 0
    /\ ctPaused' = TRUE
    /\ ctReversed' = FALSE
    /\ ctShown' = -1
    /\ ctText' = <<>>
    /\ scrollY' = 0
    /\ UNCHANGED <<providerMounted, lenisCount, lenisDestroyed, lenisRef, ticker,
                   rafCalledOn, lenisTarget, lenisScroll>>
    /\ UNCHANGED <<bsVars, tgVars, scVars, pnVars, extVars>>

NextCounter ==
    \/ \E kind \in CounterKinds, target \in CounterTargets, prefix \in Prefixes,
          suffix \in Suffixes, locale \in Locales :
          CtRegister(kind, target, prefix, suffix, locale)
    \/ \E dt \in 1..MaxFrameTicks, o \in CounterOffsets : CtFrame(dt, o)
    \/ CtRevert

(***************************************************************************)
(* gsap.ticker timing: the elapsed time a ticker frame hands to the tweens *)
(* and, through the provider's listener, to lenis.raf.  In this part time  *)
(* is counted in frames of 1/30 s (33 ms).                                 *)
(***************************************************************************)
MaxStall == 20
LgTweenDur == 30
LgLenisDur == 36

\* gsap's lag smoothing before LenisProvider touches it: lagSmoothing(500, 33)
GsapDefaultLag == [threshold |-> 15, adjustedLag |-> 1]

\* gsap.ticker.lagSmoothing(threshold, adjustedLag):
\*   _lagThreshold = threshold || Infinity
\*   _adjustedLag = Math.min(adjustedLag || 33, _lagThreshold)
\* called by the provider with the single argument 0
LagSmoothing(threshold) ==
    [threshold |-> threshold,
     adjustedLag |-> IF threshold = 0 THEN GsapDefaultLag.adjustedLag
                     ELSE Min(GsapDefaultLag.adjustedLag, threshold)]

\* The time a ticker frame advances by, given the wall-clock time elapsed
\* since the previous frame: the ticker substitutes _adjustedLag when the
\* elapsed time exceeds _lagThreshold (never, when the threshold is Infinity)
TickerDelta(elapsed, threshold, adjusted) ==
    IF threshold # 0 /\ elapsed > threshold THEN adjusted ELSE elapsed

\* Animate.advance(deltaTime) of Lenis and Tween.render: the playhead moves
\* by the delta it is given, up to the duration
Advance(t, delta, dur) == IF t < 0 THEN t ELSE Min(dur, t + delta)

LagInit ==
    /\ lgMounted = FALSE
    /\ lgThreshold = GsapDefaultLag.threshold
    /\ lgAdjusted = GsapDefaultLag.adjustedLag
    /\ lgTweenTime = -1
    /\ lgLenisTime = -1
    /\ lgElapsed = 0
    /\ lgApplied = 0

\* LenisProvider useEffect: gsap.ticker.add(...); gsap.ticker.lagSmoothing(0)
LgMount ==
    /\ ~lgMounted
    /\ lgMounted' = TRUE
    /\ lgThreshold' = LagSmoothing(0).threshold
    /\ lgAdjusted' = LagSmoothing(0).adjustedLag
    /\ UNCHANGED <<lgTweenTime, lgLenisTime, lgElapsed, lgApplied>>
    /\ UNCHANGED <<coreVars, lgOthers>>

\* The effect's cleanup: lenis.destroy(); the ticker settings stay
LgUnmount ==
    /\ lgMounted
    /\ lgMounted' = FALSE
    /\ lgLenisTime' = -1
    /\ UNCHANGED <<lgThreshold, lgAdjusted, lgTweenTime, lgElapsed, lgApplied>>
    /\ UNCHANGED <<coreVars, lgOthers>>

\* A tween starts playing (a toggle registration entered its range)
LgTweenStart ==
    /\ lgTweenTime \in {-1, LgTweenDur}
    /\ lgTweenTime' = 0
    /\ UNCHANGED <<lgMounted, lgThreshold, lgAdjusted, lgLenisTime, lgElapsed, lgApplied>>
    /\ UNCHANGED <<coreVars, lgOthers>>

\* A wheel event: Lenis starts a scroll animation of duration 1.2 s
LgWheel ==
    /\ lgMounted
    /\ lgLenisTime' = 0
    /\ lgLenisTime # 0
    /\ UNCHANGED <<lgMounted, lgThreshold, lgAdjusted, lgTweenTime, lgElapsed, lgApplied>>
    /\ UNCHANGED <<coreVars, lgOthers>>

\* One ticker frame, elapsed after the previous one: the root timeline
\* renders the tween, then (time) => lenis.raf(time * 1000) runs
LgFrame(elapsed) ==
    /\ LET delta == TickerDelta(elapsed, lgThreshold, lgAdjusted)
       IN /\ lgElapsed' = elapsed
          /\ lgApplied' = delta
          /\ lgTweenTime' = Advance(lgTweenTime, delta, LgTweenDur)
          /\ lgLenisTime' = IF lgMounted
                            THEN LET t == Advance(lgLenisTime, delta, LgLenisDur)
                                 IN IF t = LgLenisDur THEN -1 ELSE t
                            ELSE lgLenisTime
    /\ UNCHANGED <<lgMounted, lgThreshold, lgAdjusted>>
    /\ UNCHANGED <<coreVars, lgOthers>>

NextLag ==
    \/ LgMount
    \/ LgUnmount
    \/ LgTweenStart
    \/ LgWheel
    \/ \E elapsed \in 1..MaxStall : LgFrame(elapsed)

(***************************************************************************)
(* The order of work inside one gsap.ticker frame.  The ticker calls its   *)
(* listeners in the order they were added: gsap's own root-timeline update *)
(* (added when gsap loads) and then the provider's listener.               *)
(***************************************************************************)
FoMaxScroll == 3

FoKinds == {"toggle", "scrubNumber", "scrubTrue"}

\* the listeners of gsap.ticker before any effect ran: gsap.updateRoot
FoInitialListeners == <<"updateRoot">>

FrameOrderInit ==
    /\ foListeners = FoInitialListeners
    /\ foPc = 0
    /\ foKind = "none"
    /\ foTarget = 0
    /\ foScroll = 0
    /\ foSeen = 0
    /\ foApplied = 0
    /\ foOrder = <<>>

\* LenisProvider useEffect: lenis.on("scroll", ScrollTrigger.update);
\* gsap.ticker.add((time) => lenis.raf(time * 1000)), without prioritize
FoMount ==
    /\ foPc = 0
    /\ "lenisRaf" \notin Range(foListeners)
    /\ foListeners' = TickerAdd(foListeners, "lenisRaf")
    /\ UNCHANGED <<foPc, foKind, foTarget, foScroll, foSeen, foApplied, foOrder>>
    /\ UNCHANGED <<coreVars, foOthers>>

\* A section registers a scroll-driven tween
FoRegister(kind) ==
    /\ foPc = 0
    /\ foKind = "none"
    /\ foKind' = kind
    /\ foSeen' = foScroll
    /\ foApplied' = foScroll
    /\ foOrder' = <<>>
    /\ UNCHANGED <<foListeners, foPc, foTarget, foScroll>>
    /\ UNCHANGED <<coreVars, foOthers>>

\* The section's cleanup, ctx.revert()
FoRevert ==
    /\ foPc = 0
    /\ foKind # "none"
    /\ foKind' = "none"
    /\ foOrder' = <<>>
    /\ UNCHANGED <<foListeners, foPc, foTarget, foScroll, foSeen, foApplied>>
    /\ UNCHANGED <<coreVars, foOthers>>

\* A wheel event between two frames moves Lenis' target
FoWheel(delta) ==
    /\ foPc = 0
    /\ "lenisRaf" \in Range(foListeners)
    /\ foTarget' = Max(0, Min(FoMaxScroll, foTarget + delta))
    /\ foTarget' # foTarget
    /\ UNCHANGED <<foListeners, foPc, foKind, foScroll, foSeen, foApplied, foOrder>>
    /\ UNCHANGED <<coreVars, foOthers>>

\* the listener the ticker calls next, and the position after it
FoNextListener == foListeners[foPc + 1]
FoPcAfter == IF foPc + 1 = Len(foListeners) THEN 0 ELSE foPc + 1
FoOrderSoFar == IF foPc = 0 THEN <<>> ELSE foOrder

\* gsap.updateRoot: the root timeline renders every playing tween.  A toggle
\* tween and the scrub tween of a numeric scrub were (re)started by the last
\* ScrollTrigger.update, so what is applied now derives from the offset that
\* update saw.
FoUpdateRoot ==
    /\ FoNextListener = "updateRoot"
    /\ foPc' = FoPcAfter
    /\ foApplied' = IF foKind \in {"toggle", "scrubNumber"} THEN foSeen ELSE foApplied
    /\ foOrder' = Append(FoOrderSoFar, "apply")
    /\ UNCHANGED <<foListeners, foKind, foTarget, foScroll, foSeen>>
    /\ UNCHANGED <<coreVars, foOthers>>

\* (time) => lenis.raf(time * 1000): the scroll animation advances; when the
\* offset moved Lenis emits "scroll", whose handler is ScrollTrigger.update.
\* With scrub: true the update sets the animation's progress itself.
FoLenisRaf ==
    /\ FoNextListener = "lenisRaf"
    /\ foPc' = FoPcAfter
    /\ LET o == RafStep(foScroll, foTarget)
           emitted == o # foScroll
       IN /\ foScroll' = o
          /\ foSeen' = IF emitted THEN o ELSE foSeen
          /\ foApplied' = IF emitted /\ foKind = "scrubTrue" THEN o ELSE foApplied
          /\ foOrder' = FoOrderSoFar \o
                (IF emitted
                 THEN (IF foKind = "scrubTrue" THEN <<"raf", "update", "apply">>
                       ELSE <<"raf", "update">>)
                 ELSE <<"raf">>)
    /\ UNCHANGED <<foListeners, foKind, foTarget>>
    /\ UNCHANGED <<coreVars, foOthers>>

NextFrameOrder ==
    \/ FoMount
    \/ \E kind \in FoKinds : FoRegister(kind)
    \/ FoRevert
    \/ \E delta \in {-2, -1, 1, 2} : FoWheel(delta)
    \/ FoUpdateRoot
    \/ FoLenisRaf

(***************************************************************************)
(* Who writes the document scroll position: Lenis, and the click handlers  *)
(* of Navbar, Hero and FinalCTA.  Offsets are in section heights.          *)
(***************************************************************************)
\* the sections of the page, in document order (src/app/page.tsx)
PageSections == <<"hero", "world", "characters", "breathing", "trailer",
                  "timeline", "manga", "impact", "final">>

\* NAV_LINKS of Navbar and the two buttons of Hero
NavLinks == {"world", "characters", "breathing", "trailer", "timeline", "manga"}
HeroButtons == {"characters", "trailer"}

\* the document offset of a section's top edge
SectionTop(id) == (CHOOSE i \in DOMAIN PageSections : PageSections[i] = id) - 1
SwMaxScroll == Len(PageSections) - 1

WritersInit ==
    /\ swMounted = FALSE
    /\ swTarget = 0
    /\ swAnimated = 0
    /\ swIsScrolling = FALSE
    /\ swNative = -1
    /\ swScrollY = 0
    /\ swWriters = {}

\* LenisProvider useEffect: new Lenis(...) takes the current offset
SwMount ==
    /\ ~swMounted
    /\ swMounted' = TRUE
    /\ swTarget' = swScrollY
    /\ swAnimated' = swScrollY
    /\ swIsScrolling' = FALSE
    /\ UNCHANGED <<swNative, swScrollY, swWriters>>
    /\ UNCHANGED <<coreVars, swOthers>>

\* The effect's cleanup: lenis.destroy()
SwUnmount ==
    /\ swMounted
    /\ swMounted' = FALSE
    /\ swIsScrolling' = FALSE
    /\ UNCHANGED <<swTarget, swAnimated, swNative, swScrollY, swWriters>>
    /\ UNCHANGED <<coreVars, swOthers>>

\* A wheel event, consumed by Lenis (smoothWheel: true): scrollTo(target + delta)
SwWheel(delta) ==
    /\ swMounted
    /\ swTarget' = Max(0, Min(SwMaxScroll, swTarget + delta))
    /\ swTarget' # swTarget
    /\ swIsScrolling' = TRUE
    /\ UNCHANGED <<swMounted, swAnimated, swNative, swScrollY, swWriters>>
    /\ UNCHANGED <<coreVars, swOthers>>

\* element.scrollIntoView({ behavior: "smooth" }) and
\* window.scrollTo({ top, behavior: "smooth" }): the browser starts a smooth
\* scroll of the document towards top; Lenis is not called
NativeSmoothScroll(top) == top

\* Navbar handleNavClick(e, href)
SwNavClick(id) ==
    /\ swNative' = NativeSmoothScroll(SectionTop(id))
    /\ UNCHANGED <<swMounted, swTarget, swAnimated, swIsScrolling, swScrollY, swWriters>>
    /\ UNCHANGED <<coreVars, swOthers>>

\* Hero scrollToSection(id)
SwHeroButton(id) ==
    /\ swNative' = NativeSmoothScroll(SectionTop(id))
    /\ UNCHANGED <<swMounted, swTarget, swAnimated, swIsScrolling, swScrollY, swWriters>>
    /\ UNCHANGED <<coreVars, swOthers>>

\* FinalCTA scrollToTop
SwScrollToTop ==
    /\ swNative' = NativeSmoothScroll(0)
    /\ UNCHANGED <<swMounted, swTarget, swAnimated, swIsScrolling, swScrollY, swWriters>>
    /\ UNCHANGED <<coreVars, swOthers>>

\* One animation frame.  The browser's smooth scroll moves the offset and
\* fires "scroll"; Lenis' native-scroll handler adopts the offset unless it
\* is animating; then lenis.raf advances its animation and, when it is
\* animating, writes the offset itself (which aborts the browser's scroll).
SwFrame ==
    LET nativeMoves == swNative # -1 /\ swNative # swScrollY
        y1 == IF nativeMoves THEN RafStep(swScrollY, swNative) ELSE swScrollY
        adopts == swMounted /\ nativeMoves /\ ~swIsScrolling
        animated1 == IF adopts THEN y1 ELSE swAnimated
        target1 == IF adopts THEN y1 ELSE swTarget
        lenisMoves == swMounted /\ swIsScrolling
        animated2 == IF lenisMoves THEN RafStep(animated1, target1) ELSE animated1
    IN /\ swScrollY' = IF lenisMoves THEN animated2 ELSE y1
       /\ swAnimated' = animated2
       /\ swTarget' = target1
       /\ swIsScrolling' = (lenisMoves /\ animated2 # target1)
       /\ swNative' = IF lenisMoves \/ swNative = y1 THEN -1 ELSE swNative
       /\ swWriters' = (IF nativeMoves THEN {"browser"} ELSE {})
                          \cup (IF lenisMoves THEN {"lenis"} ELSE {})
       /\ UNCHANGED swMounted
       /\ UNCHANGED <<coreVars, swOthers>>

NextWriters ==
    \/ SwMount
    \/ SwUnmount
    \/ \E delta \in {-2, -1, 1, 2} : SwWheel(delta)
    \/ \E id \in NavLinks : SwNavClick(id)
    \/ \E id \in HeroButtons : SwHeroButton(id)
    \/ SwScrollToTop
    \/ SwFrame

(***************************************************************************)
(* The helpers of src/lib/animations.ts called with a missing element      *)
(***************************************************************************)
AllHelpers == HelperKinds \cup {"parallax", "slowZoom", "horizontalScroll"}

\* the time the helper's tween (or its scrub tween) runs for, in ticks
NlDuration(helper) ==
    CASE helper \in HelperKinds -> TgDuration(helper)
      [] helper \in {"parallax", "slowZoom"} -> ScrubSmoothing(helper)
      [] helper = "horizontalScroll" -> PinScrub

\* Does the helper's own code dereference its arguments while registering?
\* horizontalScroll reads scrollContent.scrollWidth and container.clientWidth
\* before calling gsap; the others hand their arguments to gsap, which warns
\* about a missing target and goes on.
ThrowsAtRegistration(helper, nullTarget, nullTrigger) ==
    helper = "horizontalScroll" /\ (nullTarget \/ nullTrigger)

\* Does a callback of the helper dereference its arguments on a frame?
\* counterAnimation's onUpdate assigns element.textContent.
ThrowsOnUpdate(helper, nullTarget) ==
    helper = "counterAnimation" /\ nullTarget

NullInit ==
    /\ nlHelper = "none"
    /\ nlNullTarget = FALSE
    /\ nlNullTrigger = FALSE
    /\ nlRegistered = FALSE
    /\ nlTime = -1
    /\ nlThrown = "none"

\* helper(element, { trigger }) with each of the two present or null
NlCall(helper, nullTarget, nullTrigger) ==
    /\ nlHelper = "none"
    /\ nlHelper' = helper
    /\ nlNullTarget' = nullTarget
    /\ nlNullTrigger' = nullTrigger
    /\ nlRegistered' = ~ThrowsAtRegistration(helper, nullTarget, nullTrigger)
    /\ nlThrown' = IF ThrowsAtRegistration(helper, nullTarget, nullTrigger)
                   THEN "registration" ELSE "none"
    /\ nlTime' = -1
    /\ UNCHANGED <<coreVars, nlOthers>>

\* The scroll offset reaches the trigger's start: the tween starts to play
NlEnter ==
    /\ nlRegistered
    /\ nlTime = -1
    /\ nlTime' = 0
    /\ UNCHANGED <<nlHelper, nlNullTarget, nlNullTrigger, nlRegistered, nlThrown>>
    /\ UNCHANGED <<coreVars, nlOthers>>

\* A ticker frame renders the playing tween and calls its onUpdate
NlFrame(dt) ==
    /\ nlRegistered
    /\ nlTime >= 0
    /\ nlTime < NlDuration(nlHelper)
    /\ nlTime' = Min(NlDuration(nlHelper), nlTime + dt)
    /\ nlThrown' = IF ThrowsOnUpdate(nlHelper, nlNullTarget) THEN "update" ELSE nlThrown
    /\ UNCHANGED <<nlHelper, nlNullTarget, nlNullTrigger, nlRegistered>>
    /\ UNCHANGED <<coreVars, nlOthers>>

\* The caller disposes of what the helper returned (tween.kill())
NlKill ==
    /\ nlHelper # "none"
    /\ nlHelper' = "none"
    /\ nlNullTarget' = FALSE
    /\ nlNullTrigger' = FALSE
    /\ nlRegistered' = FALSE
    /\ nlTime' = -1
    /\ nlThrown' = "none"
    /\ UNCHANGED <<coreVars, nlOthers>>

NextNull ==
    \/ \E helper \in AllHelpers, nullTarget \in BOOLEAN, nullTrigger \in BOOLEAN :
          NlCall(helper, nullTarget, nullTrigger)
    \/ NlEnter
    \/ \E dt \in 1..MaxFrameTicks : NlFrame(dt)
    \/ NlKill

(***************************************************************************)
(* A section's effect as a sequence of registrations, and a failure in one *)
(* of them.  The callback handed to gsap.context runs the registrations    *)
(* one after the other, with no try/catch around any of them or around the *)
(* callbacks gsap calls on a frame.                                        *)
(***************************************************************************)
FrDuration == 10

\* the registrations of a section's gsap.context callback, in source order
FrRegs(section) ==
    CASE section = "impact" -> <<"heading", "separator", "counters", "cards">>
      [] section = "timeline" -> <<"pin", "content", "line", "separator">>
      [] OTHER -> <<>>

FrSections == {"impact", "timeline"}
FrIndices(section) == DOMAIN FrRegs(section)

\* What a callback that throws at its k-th statement has done: the
\* statements before it (k = 0: no statement throws)
RegisteredBefore(section, k) ==
    IF k = 0 THEN FrIndices(section) ELSE {i \in FrIndices(section) : i < k}

\* What one pass over the root timeline's children renders when the k-th
\* child's render (its onUpdate) throws: the children before it
RenderedBefore(registered, k) ==
    IF k = 0 THEN registered ELSE {i \in registered : i < k}

FaultInit ==
    /\ frSection = "none"
    /\ frRegistered = {}
    /\ frFaultAt = 0
    /\ frUpdateFault = 0
    /\ frDriven = {}
    /\ frRafRan = FALSE
    /\ frTime = 0

\* useEffect of the section; faultAt is the registration that throws, 0 if none
FrMount(section, faultAt) ==
    /\ frSection = "none"
    /\ frSection' = section
    /\ frFaultAt' = faultAt
    /\ frRegistered' = RegisteredBefore(section, faultAt)
    /\ frUpdateFault' = 0
    /\ frDriven' = {}
    /\ frRafRan' = FALSE
    /\ frTime' = 0
    /\ UNCHANGED <<coreVars, frOthers>>

\* The update of registered region k starts to throw (its target went away)
FrBreak(k) ==
    /\ frSection # "none"
    /\ frUpdateFault = 0
    /\ k \in frRegistered
    /\ frUpdateFault' = k
    /\ UNCHANGED <<frSection, frRegistered, frFaultAt, frDriven, frRafRan, frTime>>
    /\ UNCHANGED <<coreVars, frOthers>>

\* One ticker frame: the root timeline renders the registered tweens in the
\* order they were created, then the provider's listener runs lenis.raf.  An
\* exception leaves the frame at the point where it was thrown.
FrFrame(dt) ==
    /\ frSection # "none"
    /\ frTime < FrDuration
    /\ frTime' = Min(FrDuration, frTime + dt)
    /\ frDriven' = RenderedBefore(frRegistered, frUpdateFault)
    /\ frRafRan' = (frUpdateFault = 0)
    /\ UNCHANGED <<frSection, frRegistered, frFaultAt, frUpdateFault>>
    /\ UNCHANGED <<coreVars, frOthers>>

\* The section unmounts
FrUnmount ==
    /\ frSection # "none"
    /\ frSection' = "none"
    /\ frRegistered' = {}
    /\ frFaultAt' = 0
    /\ frUpdateFault' = 0
    /\ frDriven' = {}
    /\ frRafRan' = FALSE
    /\ frTime' = 0
    /\ UNCHANGED <<coreVars, frOthers>>

NextFault ==
    \/ \E section \in FrSections, faultAt \in 0..4 : FrMount(section, faultAt)
    \/ \E k \in 1..4 : FrBreak(k)
    \/ \E dt \in 1..MaxFrameTicks : FrFrame(dt)
    \/ FrUnmount

(***************************************************************************)
(* A section's gsap.context and the inline styles its tweens write: Hero,  *)
(* FinalCTA and ImpactSection.  An element's style is -1 when it carries   *)
(* no inline style from a tween (it then shows what its markup gives it),  *)
(* and otherwise the time, in ticks, its tween has progressed to.          *)
(***************************************************************************)
MaxReverts == 2

SxSections == {"hero", "finalCTA", "impact"}

\* the elements a section's effect animates with an opacity tween
SxElems(section) ==
    CASE section = "hero" -> {"heroHeadline", "heroSubtext", "heroButtons"}
      [] section = "finalCTA" -> {"ctaSubtitle", "ctaHeadline", "ctaText", "ctaButton",
                                  "ctaFooter"}
      [] section = "impact" -> {"impactHeading", "impactCards"}
      [] OTHER -> {}

AllSxElems == UNION {SxElems(section) : section \in SxSections}

\* elements whose markup carries the class opacity-0
MarkupHidden == {"heroHeadline", "heroSubtext", "ctaSubtitle", "ctaHeadline", "ctaText",
                 "ctaButton", "ctaFooter"}

\* when an element's tween starts, in ticks after the section's animation
\* starts to play: its delay, or its position on the FinalCTA timeline
SxStart(el) ==
    CASE el = "heroHeadline" -> 3
      [] el = "heroSubtext" -> 10
      [] el = "heroButtons" -> 14
      [] el = "ctaSubtitle" -> 0
      [] el = "ctaHeadline" -> 4
      [] el = "ctaText" -> 8
      [] el = "ctaButton" -> 10
      [] el = "ctaFooter" -> 13
      [] el = "impactHeading" -> 0
      [] el = "impactCards" -> 0

\* the tween's duration, in ticks
SxDur(el) ==
    CASE el = "heroHeadline" -> 15
      [] el = "heroSubtext" -> 10
      [] el = "heroButtons" -> 8
      [] el = "ctaSubtitle" -> 10
      [] el = "ctaHeadline" -> 14
      [] el = "ctaText" -> 10
      [] el = "ctaButton" -> 8
      [] el = "ctaFooter" -> 15
      [] el = "impactHeading" -> 10
      [] el = "impactCards" -> 8

\* the time at which the section's last tween ends
SxEnd(section) ==
    CHOOSE m \in 0..40 : /\ \A el \in SxElems(section) : SxStart(el) + SxDur(el) <= m
                         /\ \E el \in SxElems(section) : SxStart(el) + SxDur(el) = m

\* sections whose tweens wait for a scrollTrigger (Hero's play at once)
SxTriggered == {"finalCTA", "impact"}

\* how far an element's tween has progressed at section time t
SxProgress(el, t) == Max(0, Min(SxDur(el), t - SxStart(el)))

\* The element shows its content fully: its tween is at its end, or it has no
\* inline style and its markup does not hide it
Revealed(el, style) ==
    IF style = -1 THEN el \notin MarkupHidden ELSE style = SxDur(el)

\* ctx.revert(): every animation the context recorded is reverted and killed
LiveKeptOnRevert(live, data) == live

LiveAfterRevert(live, data) == live \ data

\* Tween.revert(): the inline styles the tween wrote are removed, which
\* returns the element to what it was before the tween
StyleAfterRevert(style, data) ==
    [el \in AllSxElems |-> IF el \in data THEN -1 ELSE style[el]]

SectionCtxInit ==
    /\ sxSection = "none"
    /\ sxPhase = "unmounted"
    /\ sxData = {}
    /\ sxLive = {}
    /\ sxTriggers = {}
    /\ sxStyle = [el \in AllSxElems |-> -1]
    /\ sxTime = 0
    /\ sxPlaying = FALSE
    /\ sxReverts = 0

\* useEffect of the section: gsap.context(() => { ...fromTo... }, sectionRef).
\* A fromTo renders its from-values at once (immediateRender).
SxMount(section) ==
    /\ sxPhase # "mounted"
    /\ sxSection \in {"none", section}
    /\ sxSection' = section
    /\ sxPhase' = "mounted"
    /\ sxData' = SxElems(section)
    /\ sxLive' = SxElems(section)
    /\ sxTriggers' = IF section \in SxTriggered THEN SxElems(section) ELSE {}
    /\ sxStyle' = [el \in AllSxElems |-> IF el \in SxElems(section) THEN 0 ELSE sxStyle[el]]
    /\ sxTime' = 0
    /\ sxPlaying' = (section \notin SxTriggered)
    /\ sxReverts' = 0
    /\ UNCHANGED <<coreVars, sxOthers>>

\* The section renders but its effect registers nothing (the registration
\* failed or was skipped): the elements are what the markup makes them
SxSkip(section) ==
    /\ sxPhase = "unmounted"
    /\ sxSection' = section
    /\ sxPhase' = "skipped"
    /\ UNCHANGED <<sxData, sxLive, sxTriggers, sxStyle, sxTime, sxPlaying, sxReverts>>
    /\ UNCHANGED <<coreVars, sxOthers>>

\* The scroll offset reaches a live trigger's start: toggleActions play
SxEnter ==
    /\ sxTriggers # {}
    /\ ~sxPlaying
    /\ sxPlaying' = TRUE
    /\ UNCHANGED <<sxSection, sxPhase, sxData, sxLive, sxTriggers, sxStyle, sxTime,
                   sxReverts>>
    /\ UNCHANGED <<coreVars, sxOthers>>

\* A ticker frame renders the live tweens
SxFrame(dt) ==
    /\ sxLive # {}
    /\ sxPlaying
    /\ sxTime < SxEnd(sxSection)
    /\ sxTime' = Min(SxEnd(sxSection), sxTime + dt)
    /\ sxStyle' = [el \in AllSxElems |->
                      IF el \in sxLive THEN SxProgress(el, sxTime') ELSE sxStyle[el]]
    /\ UNCHANGED <<sxSection, sxPhase, sxData, sxLive, sxTriggers, sxPlaying, sxReverts>>
    /\ UNCHANGED <<coreVars, sxOthers>>

\* The effect's cleanup, () => ctx.revert(), called once or again
SxRevert ==
    /\ sxPhase \in {"mounted", "reverted"}
    /\ sxReverts < MaxReverts
    /\ sxReverts' = sxReverts + 1
    /\ sxPhase' = "reverted"
    /\ sxLive' = LiveAfterRevert(sxLive, sxData)
    /\ sxTriggers' = sxTriggers \ sxData
    /\ sxStyle' = StyleAfterRevert(sxStyle, sxData)
    /\ sxData' = {}
    /\ sxPlaying' = (sxPlaying /\ LiveAfterRevert(sxLive, sxData) # {})
    /\ UNCHANGED <<sxSection, sxTime>>
    /\ UNCHANGED <<coreVars, sxOthers>>

NextSectionCtx ==
    \/ \E section \in SxSections : SxMount(section)
    \/ \E section \in SxSections : SxSkip(section)
    \/ SxEnter
    \/ \E dt \in 1..MaxFrameTicks : SxFrame(dt)
    \/ SxRevert

(***************************************************************************)
(* createGsapContext and the animations a component makes with the helpers *)
(***************************************************************************)
\* What the context returned by createGsapContext(scope) has recorded: the
\* animations created while its function ran, and the function is () => {}
CreateGsapContextRecorded == {}

GsapCtxInit ==
    /\ gcCtx = "none"
    /\ gcData = {}
    /\ gcLive = {}
    /\ gcTriggers = {}
    /\ gcRendered = {}

\* const ctx = createGsapContext(scope)
GcCreate ==
    /\ gcCtx # "open"
    /\ gcLive = {}
    /\ gcCtx' = "open"
    /\ gcData' = CreateGsapContextRecorded
    /\ gcRendered' = {}
    /\ UNCHANGED <<gcLive, gcTriggers>>
    /\ UNCHANGED <<coreVars, gcOthers>>

\* The component calls a helper for an element of the scope, directly or
\* wrapped as ctx.add(() => helper(...)); only the latter is recorded
GcHelper(helper, viaAdd) ==
    /\ gcCtx = "open"
    /\ helper \notin gcLive
    /\ gcLive' = gcLive \cup {helper}
    /\ gcTriggers' = gcTriggers \cup {helper}
    /\ gcData' = IF viaAdd THEN gcData \cup {helper} ELSE gcData
    /\ UNCHANGED <<gcCtx, gcRendered>>
    /\ UNCHANGED <<coreVars, gcOthers>>

\* A ticker frame renders the live tweens
GcFrame ==
    /\ gcCtx # "none"
    /\ gcRendered' = gcLive
    /\ UNCHANGED <<gcCtx, gcData, gcLive, gcTriggers>>
    /\ UNCHANGED <<coreVars, gcOthers>>

\* The component's cleanup: ctx.revert()
GcRevert ==
    /\ gcCtx = "open"
    /\ gcCtx' = "reverted"
    /\ gcLive' = LiveAfterRevert(gcLive, gcData)
    /\ gcTriggers' = gcTriggers \ gcData
    /\ gcData' = {}
    /\ UNCHANGED gcRendered
    /\ UNCHANGED <<coreVars, gcOthers>>

\* The component kills a tween a helper returned: tween.kill()
GcKill(helper) ==
    /\ helper \in gcLive
    /\ gcLive' = gcLive \ {helper}
    /\ gcTriggers' = gcTriggers \ {helper}
    /\ gcData' = gcData \ {helper}
    /\ UNCHANGED <<gcCtx, gcRendered>>
    /\ UNCHANGED <<coreVars, gcOthers>>

NextGsapCtx ==
    \/ GcCreate
    \/ \E helper \in AllHelpers, viaAdd \in BOOLEAN : GcHelper(helper, viaAdd)
    \/ GcFrame
    \/ GcRevert
    \/ \E helper \in AllHelpers : GcKill(helper)

(***************************************************************************)
(* Mask reveal: a clip-path inset() tweened from closed to open            *)
(***************************************************************************)
MaskKinds == {"maskReveal", "heroHeadline"}

\* options.duration ?? 1.2 and options.delay ?? 0 of maskReveal, in ticks
MaskDurations == {8, 10, 12}
MaskDelays == {0, 2, 5}
\* the Hero headline: duration 1.5, delay 0.3
HeroMaskDuration == 15
HeroMaskDelay == 3

\* A reveal from the right: the window's left edge starts at 100%
ClipFromRight == <<0, 0, 0, 100>>

\* "inset(0 100% 0 0)" and "inset(0 0% 0 0)": top, right, bottom, left
ClipFrom == <<0, 100, 0, 0>>
ClipTo == <<0, 0, 0, 0>>

Pow5(x) == x * x * x * x * x

\* ease "power4.inOut" (gsap's Power4 is the quintic) at t of d ticks, in
\* 1/d^5: (2p)^5 / 2 below one half, 1 - (2(1 - p))^5 / 2 from there on
EasePower4InOut(t, d) ==
    IF 2 * t < d THEN 16 * Pow5(t) ELSE Pow5(d) - (16 * Pow5(d - t))

\* Math.round(x * 10000) for x = p * num / den with 0 <= num <= den and p a
\* whole percentage: gsap writes the numbers of a complex string rounded to
\* four decimals.  The result is in 1/10000 of a percent.
RoundedShare(p, num, den) ==
    LET a == (10 * p * num) \div den
        r == (10 * p * num) % den
    IN (1000 * a) + (((2000 * r) + den) \div (2 * den))

\* the numbers of the interpolated inset() at playhead t: start + change * ratio
ClipAt(t, d) ==
    [i \in 1..4 |->
        IF ClipTo[i] >= ClipFrom[i]
        THEN (ClipFrom[i] * 10000)
                 + RoundedShare(ClipTo[i] - ClipFrom[i], EasePower4InOut(t, d), Pow5(d))
        ELSE (ClipFrom[i] * 10000)
                 - RoundedShare(ClipFrom[i] - ClipTo[i], EasePower4InOut(t, d), Pow5(d))]

\* the part of the element's width the window shows, in 1/10000 of a percent
MaskVisible == 1000000 - (mkClip[2] + mkClip[4])

MaskInit ==
    /\ mkKind = "none"
    /\ mkDuration = 0
    /\ mkDelayLeft = 0
    /\ mkTime = 0
    /\ mkPaused = TRUE
    /\ mkReversed = FALSE
    /\ mkClip = <<>>

\* maskReveal(element, options): fromTo renders its from state at once and
\* the tween waits for its trigger
MkMaskReveal(duration, delay) ==
    /\ mkKind = "none"
    /\ mkKind' = "maskReveal"
    /\ mkDuration' = duration
    /\ mkDelayLeft' = delay
    /\ mkTime' = 0
    /\ mkPaused' = TRUE
    /\ mkReversed' = FALSE
    /\ mkClip' = ClipAt(0, duration)
    /\ UNCHANGED <<coreVars, mkOthers>>

\* the Hero effect's headline tween: no trigger, it plays from mount
MkHero ==
    /\ mkKind = "none"
    /\ mkKind' = "heroHeadline"
    /\ mkDuration' = HeroMaskDuration
    /\ mkDelayLeft' = HeroMaskDelay
    /\ mkTime' = 0
    /\ mkPaused' = FALSE
    /\ mkReversed' = FALSE
    /\ mkClip' = ClipAt(0, HeroMaskDuration)
    /\ UNCHANGED <<coreVars, mkOthers>>

\* the offset passes the trigger's start downward: onEnter, "play"
MkEnter ==
    /\ mkKind = "maskReveal"
    /\ mkPaused \/ mkReversed
    /\ mkPaused' = FALSE
    /\ mkReversed' = FALSE
    /\ UNCHANGED <<mkKind, mkDuration, mkDelayLeft, mkTime, mkClip>>
    /\ UNCHANGED <<coreVars, mkOthers>>

\* the offset comes back above the start: onLeaveBack, "reverse"
MkLeaveBack ==
    /\ mkKind = "maskReveal"
    /\ ~mkPaused /\ ~mkReversed
    /\ mkReversed' = TRUE
    /\ UNCHANGED <<mkKind, mkDuration, mkDelayLeft, mkTime, mkPaused, mkClip>>
    /\ UNCHANGED <<coreVars, mkOthers>>

\* a ticker frame renders the tween
MkFrame(dt) ==
    /\ mkKind # "none"
    /\ ~mkPaused
    /\ LET wait == IF mkReversed THEN 0 ELSE Min(dt, mkDelayLeft)
           t == IF mkReversed THEN Max(0, mkTime - dt)
                ELSE Min(mkDuration, mkTime + (dt - wait))
       IN /\ mkDelayLeft' = mkDelayLeft - wait
          /\ mkTime' = t
          /\ mkClip' = ClipAt(t, mkDuration)
    /\ UNCHANGED <<mkKind, mkDuration, mkPaused, mkReversed>>
    /\ UNCHANGED <<coreVars, mkOthers>>

\* the owner's cleanup: the tween is killed and the inline style removed
MkRevert ==
    /\ mkKind # "none"
    /\ mkKind' = "none"
    /\ mkDuration' = 0
    /\ mkDelayLeft' = 0
    /\ mkTime' = 0
    /\ mkPaused' = TRUE
    /\ mkReversed' = FALSE
    /\ mkClip' = <<>>
    /\ UNCHANGED <<coreVars, mkOthers>>

NextMask ==
    \/ \E duration \in MaskDurations, delay \in MaskDelays : MkMaskReveal(duration, delay)
    \/ MkHero
    \/ MkEnter
    \/ MkLeaveBack
    \/ \E dt \in 1..MaxFrameTicks : MkFrame(dt)
    \/ MkRevert

(***************************************************************************)
(* Lenis' eased scroll animation                                           *)
(***************************************************************************)
\* duration: 1.2, in ticks
LeDuration == 12
\* the unit of eased fractions and of animated offsets: 1/10000
EaseScale == 10000
LeMaxOffset == 3
MaxInputs == 2

\* 2^(-j/6) for j = 0..5, in 1/10000
SixthRoots == <<10000, 8909, 7937, 7071, 6300, 5612>>

\* Math.pow(2, -n / 6), in 1/10000, rounded down
NegPow2Sixths(n) == SixthRoots[(n % 6) + 1] \div Pow2(n \div 6)

\* An easing without the Math.min, its constant 1.1 for 1.001
LenisEasingOvershoot(k) ==
    (EaseScale + (EaseScale \div 10)) - NegPow2Sixths((10 * 6 * k) \div LeDuration)

\* easing: (t) => Math.min(1, 1.001 - Math.pow(2, -10 * t)) at t = k / LeDuration
LenisEasing(k) ==
    Min(EaseScale,
        (EaseScale + (EaseScale \div 1000)) - NegPow2Sixths((10 * 6 * k) \div LeDuration))

\* Animate.advance: value = from + (to - from) * easedProgress
LeValueAt(from, to, eased) == from + (((to - from) * eased) \div EaseScale)

LenisEaseInit ==
    /\ leMounted = FALSE
    /\ leTimeSet = FALSE
    /\ leRunning = FALSE
    /\ leFrom = 0
    /\ leTo = 0
    /\ leTime = 0
    /\ leValue = 0
    /\ leEased = -1
    /\ leInputs = 0

\* new Lenis({ duration, easing, smoothWheel })
LeMount ==
    /\ ~leMounted
    /\ leMounted' = TRUE
    /\ leTimeSet' = FALSE
    /\ leRunning' = FALSE
    /\ leFrom' = 0
    /\ leTo' = 0
    /\ leTime' = 0
    /\ leValue' = 0
    /\ leEased' = -1
    /\ leInputs' = 0
    /\ UNCHANGED <<coreVars, leOthers>>

\* lenis.destroy()
LeUnmount ==
    /\ leMounted
    /\ leMounted' = FALSE
    /\ leTimeSet' = FALSE
    /\ leRunning' = FALSE
    /\ leFrom' = 0
    /\ leTo' = 0
    /\ leTime' = 0
    /\ leValue' = 0
    /\ leEased' = -1
    /\ leInputs' = 0
    /\ UNCHANGED <<coreVars, leOthers>>

\* a wheel input: scrollTo(target) starts an animation from animatedScroll
LeScrollTo(target) ==
    /\ leMounted
    /\ leInputs < MaxInputs
    /\ target * EaseScale # leTo
    /\ leFrom' = leValue
    /\ leTo' = target * EaseScale
    /\ leTime' = 0
    /\ leRunning' = TRUE
    /\ leEased' = -1
    /\ leInputs' = leInputs + 1
    /\ UNCHANGED <<leMounted, leTimeSet, leValue>>
    /\ UNCHANGED <<coreVars, leOthers>>

\* lenis.raf(time): deltaTime = time - (this.time || time) is 0 on the first
\* call; the running animation advances by it
LeRaf(dt) ==
    /\ leMounted
    /\ leTimeSet' = TRUE
    /\ LET delta == IF leTimeSet THEN dt ELSE 0
           t == Min(LeDuration, leTime + delta)
           completed == t >= LeDuration
           eased == IF completed THEN EaseScale ELSE LenisEasing(t)
       IN IF leRunning
          THEN /\ leTime' = t
               /\ leEased' = eased
               /\ leValue' = LeValueAt(leFrom, leTo, eased)
               /\ leRunning' = ~completed
          ELSE UNCHANGED <<leTime, leEased, leValue, leRunning>>
    /\ UNCHANGED <<leMounted, leFrom, leTo, leInputs>>
    /\ UNCHANGED <<coreVars, leOthers>>

NextLenisEase ==
    \/ LeMount
    \/ LeUnmount
    \/ \E target \in 0..LeMaxOffset : LeScrollTo(target)
    \/ \E dt \in 1..MaxFrameTicks : LeRaf(dt)

(***************************************************************************)
(* The character carousel of CharactersSection                             *)
(***************************************************************************)
\* CHARACTERS.length
NumCharacters == 11
\* the Auto-Play interval, 4000 ms, in seconds
AutoPlaySeconds == 4
\* the threshold of onDragEnd
SwipeThreshold == 100
MaxResets == 3

Cards == 0..(NumCharacters - 1)
DragOffsets == {-150, -50, 0, 50, 150}
DragVelocities == {-3, 0, 3}

\* An increment that does not wrap
NextIndexNoWrap(i) == i + 1

\* (prev + 1) % CHARACTERS.length
NextIndex(i) == (i + 1) % NumCharacters

\* (prev - 1 + CHARACTERS.length) % CHARACTERS.length
PrevIndex(i) == ((i - 1) + NumCharacters) % NumCharacters

\* A decision that looks at the offset alone
DragDecisionOffsetOnly(offset, velocity) ==
    IF offset < -SwipeThreshold THEN "next"
    ELSE IF offset > SwipeThreshold THEN "prev"
    ELSE "none"

\* onDragEnd: swipe = Math.abs(offset.x) * velocity.x
DragDecision(offset, velocity) ==
    LET swipe == (IF offset < 0 THEN -offset ELSE offset) * velocity
    IN IF swipe < -SwipeThreshold \/ offset < -SwipeThreshold THEN "next"
       ELSE IF swipe > SwipeThreshold \/ offset > SwipeThreshold THEN "prev"
       ELSE "none"

\* A cleanup that leaves its interval set
TimersKept(timers, deps) == timers

\* the cleanup of the effect's last run: clearInterval(interval) when that
\* run had set one (the last of the timers)
TimersAfterCleanup(timers, deps) ==
    IF deps # <<>> /\ deps[1] /\ timers # <<>>
    THEN SubSeq(timers, 1, Len(timers) - 1)
    ELSE timers

\* the Auto-Play effect re-run: the last run's cleanup, then the body, which
\* returns at once when isAutoPlaying is false and sets an interval otherwise
TimersAfterEffect(timers, deps, autoPlaying) ==
    IF autoPlaying THEN Append(TimersAfterCleanup(timers, deps), 0)
    ELSE TimersAfterCleanup(timers, deps)

\* the effect has to run: first render, or a dependency changed
CaEffectPending == caDeps # <<caAutoPlaying, caReset>>

\* getCardStyle(index) for a given activeIndex; opacity and scale in percent
CardPrevIndexNoWrap(active) == active - 1
CardPrevIndex(active) == ((active - 1) + NumCharacters) % NumCharacters
CardNextIndex(active) == (active + 1) % NumCharacters

GetCardStyle(index, active) ==
    IF index = active
    THEN [zIndex |-> 10, opacity |-> 100, scale |-> 100, x |-> "0%",
          rotateY |-> 0, pointerEvents |-> "auto"]
    ELSE IF index = CardPrevIndex(active)
    THEN [zIndex |-> 5, opacity |-> 60, scale |-> 80, x |-> "-60%",
          rotateY |-> 10, pointerEvents |-> "auto"]
    ELSE IF index = CardNextIndex(active)
    THEN [zIndex |-> 5, opacity |-> 60, scale |-> 80, x |-> "60%",
          rotateY |-> -10, pointerEvents |-> "auto"]
    ELSE [zIndex |-> 0, opacity |-> 0, scale |-> 60, x |-> "0%",
          rotateY |-> 0, pointerEvents |-> "none"]

CarouselInit ==
    /\ caActive = 0
    /\ caAutoPlaying = TRUE
    /\ caReset = 0
    /\ caDeps = <<>>
    /\ caTimers = <<>>
    /\ caHover = FALSE
    /\ caSinceManual = AutoPlaySeconds
    /\ caOp = "none"
    /\ caDragOffset = 0
    /\ caDragVelocity = 0

\* The effect runs after a render that was not flushed synchronously: the
\* first render, and the render that follows mouseenter / mouseleave
CaCommitEffect ==
    /\ CaEffectPending
    /\ caTimers' = TimersAfterEffect(caTimers, caDeps, caAutoPlaying)
    /\ caDeps' = <<caAutoPlaying, caReset>>
    /\ caOp' = "effect"
    /\ caDragOffset' = 0
    /\ caDragVelocity' = 0
    /\ UNCHANGED <<caActive, caAutoPlaying, caReset, caHover, caSinceManual>>
    /\ UNCHANGED <<coreVars, caOthers>>

\* handleMouseEnter: setIsAutoPlaying(false)
CaMouseEnter ==
    /\ ~caHover
    /\ caHover' = TRUE
    /\ caAutoPlaying' = FALSE
    /\ caOp' = "enter"
    /\ caDragOffset' = 0
    /\ caDragVelocity' = 0
    /\ UNCHANGED <<caActive, caReset, caDeps, caTimers, caSinceManual>>
    /\ UNCHANGED <<coreVars, caOthers>>

\* handleMouseLeave: setIsAutoPlaying(true)
CaMouseLeave ==
    /\ caHover
    /\ caHover' = FALSE
    /\ caAutoPlaying' = TRUE
    /\ caOp' = "leave"
    /\ caDragOffset' = 0
    /\ caDragVelocity' = 0
    /\ UNCHANGED <<caActive, caReset, caDeps, caTimers, caSinceManual>>
    /\ UNCHANGED <<coreVars, caOthers>>

\* handleNext from the next button: the click is flushed synchronously, the
\* effect re-runs with the new autoPlayReset before any timer can fire
CaHandleNext ==
    /\ caReset < MaxResets
    /\ caActive' = NextIndex(caActive)
    /\ caReset' = caReset + 1
    /\ caTimers' = TimersAfterEffect(caTimers, caDeps, caAutoPlaying)
    /\ caDeps' = <<caAutoPlaying, caReset + 1>>
    /\ caSinceManual' = 0
    /\ caOp' = "next"
    /\ caDragOffset' = 0
    /\ caDragVelocity' = 0
    /\ UNCHANGED <<caAutoPlaying, caHover>>
    /\ UNCHANGED <<coreVars, caOthers>>

\* handlePrev from the previous button
CaHandlePrev ==
    /\ caReset < MaxResets
    /\ caActive' = PrevIndex(caActive)
    /\ caReset' = caReset + 1
    /\ caTimers' = TimersAfterEffect(caTimers, caDeps, caAutoPlaying)
    /\ caDeps' = <<caAutoPlaying, caReset + 1>>
    /\ caSinceManual' = 0
    /\ caOp' = "prev"
    /\ caDragOffset' = 0
    /\ caDragVelocity' = 0
    /\ UNCHANGED <<caAutoPlaying, caHover>>
    /\ UNCHANGED <<coreVars, caOthers>>

\* onDragEnd of the active card
CaDragEnd(offset, velocity) ==
    /\ caReset < MaxResets
    /\ caDragOffset' = offset
    /\ caDragVelocity' = velocity
    /\ LET decision == DragDecision(offset, velocity)
       IN IF decision = "none"
          THEN /\ caOp' = "dragNone"
               /\ UNCHANGED <<caActive, caReset, caTimers, caDeps, caSinceManual>>
          ELSE /\ caActive' = (IF decision = "next" THEN NextIndex(caActive)
                               ELSE PrevIndex(caActive))
               /\ caOp' = (IF decision = "next" THEN "dragNext" ELSE "dragPrev")
               /\ caReset' = caReset + 1
               /\ caTimers' = TimersAfterEffect(caTimers, caDeps, caAutoPlaying)
               /\ caDeps' = <<caAutoPlaying, caReset + 1>>
               /\ caSinceManual' = 0
    /\ UNCHANGED <<caAutoPlaying, caHover>>
    /\ UNCHANGED <<coreVars, caOthers>>

\* the callback of an interval that is due
CaIntervalFire ==
    /\ \E i \in DOMAIN caTimers :
          /\ caTimers[i] = AutoPlaySeconds
          /\ caTimers' = [caTimers EXCEPT ![i] = 0]
    /\ caActive' = NextIndex(caActive)
    /\ caOp' = "auto"
    /\ caDragOffset' = 0
    /\ caDragVelocity' = 0
    /\ UNCHANGED <<caAutoPlaying, caReset, caDeps, caHover, caSinceManual>>
    /\ UNCHANGED <<coreVars, caOthers>>

\* a second passes: no callback is due and no effect is waiting to run
CaSecond ==
    /\ ~CaEffectPending
    /\ \A i \in DOMAIN caTimers : caTimers[i] < AutoPlaySeconds
    /\ caTimers' = [i \in DOMAIN caTimers |-> caTimers[i] + 1]
    /\ caSinceManual' = Min(AutoPlaySeconds, caSinceManual + 1)
    /\ caOp' = "second"
    /\ caDragOffset' = 0
    /\ caDragVelocity' = 0
    /\ UNCHANGED <<caActive, caAutoPlaying, caReset, caDeps, caHover>>
    /\ UNCHANGED <<coreVars, caOthers>>

NextCarousel ==
    \/ CaCommitEffect
    \/ CaMouseEnter
    \/ CaMouseLeave
    \/ CaHandleNext
    \/ CaHandlePrev
    \/ \E offset \in DragOffsets, velocity \in DragVelocities : CaDragEnd(offset, velocity)
    \/ CaIntervalFire
    \/ CaSecond

(***************************************************************************)
(* The Navbar's scroll handler                                             *)
(***************************************************************************)
\* window.scrollY at a scroll event, in px
NvOffsets == {0, 50, 51, 120, 200, 201, 400, 800}

\* A navbar that hides on any downward scroll
HidesOnAnyDownScroll(currentY, lastY) == currentY > lastY

\* currentY > lastScrollY.current && currentY > 200
HidesNavbar(currentY, lastY) == currentY > lastY /\ currentY > 200

\* currentY > 50
IsScrolled(currentY) == currentY > 50

NavbarInit ==
    /\ nvLast = 0
    /\ nvPrevLast = 0
    /\ nvScrolled = FALSE
    /\ nvHidden = FALSE
    /\ nvMobileOpen = FALSE
    /\ nvPrevOpen = FALSE
    /\ nvOp = "none"

\* handleScroll, the window's scroll listener
NvScroll(currentY) ==
    /\ nvScrolled' = IsScrolled(currentY)
    /\ IF HidesNavbar(currentY, nvLast)
       THEN /\ nvHidden' = TRUE
            /\ nvMobileOpen' = FALSE
       ELSE /\ nvHidden' = FALSE
            /\ nvMobileOpen' = nvMobileOpen
    /\ nvPrevLast' = nvLast
    /\ nvLast' = currentY
    /\ nvPrevOpen' = nvMobileOpen
    /\ nvOp' = "scroll"
    /\ UNCHANGED <<coreVars, nvOthers>>

\* the hamburger button: setMobileOpen(!mobileOpen)
NvToggleMenu ==
    /\ nvMobileOpen' = ~nvMobileOpen
    /\ nvPrevOpen' = nvMobileOpen
    /\ nvOp' = "toggle"
    /\ UNCHANGED <<nvLast, nvPrevLast, nvScrolled, nvHidden>>
    /\ UNCHANGED <<coreVars, nvOthers>>

\* handleNavClick on a link whose section exists: setMobileOpen(false)
NvNavClick ==
    /\ nvMobileOpen' = FALSE
    /\ nvPrevOpen' = nvMobileOpen
    /\ nvOp' = "navClick"
    /\ UNCHANGED <<nvLast, nvPrevLast, nvScrolled, nvHidden>>
    /\ UNCHANGED <<coreVars, nvOthers>>

\* a click on the mobile overlay, rendered while the menu is open
NvOverlayClick ==
    /\ nvMobileOpen
    /\ nvMobileOpen' = FALSE
    /\ nvPrevOpen' = nvMobileOpen
    /\ nvOp' = "overlay"
    /\ UNCHANGED <<nvLast, nvPrevLast, nvScrolled, nvHidden>>
    /\ UNCHANGED <<coreVars, nvOthers>>

NextNavbar ==
    \/ \E currentY \in NvOffsets : NvScroll(currentY)
    \/ NvToggleMenu
    \/ NvNavClick
    \/ NvOverlayClick

(***************************************************************************)
(* Specifications                                                          *)
(***************************************************************************)
Init ==
    /\ LenisInit
    /\ BreathingInit
    /\ ToggleInit
    /\ ScrubInit
    /\ PinInit
    /\ CounterInit
    /\ LagInit
    /\ FrameOrderInit
    /\ WritersInit
    /\ NullInit
    /\ FaultInit
    /\ SectionCtxInit
    /\ GsapCtxInit
    /\ MaskInit
    /\ LenisEaseInit
    /\ CarouselInit
    /\ NavbarInit

Next ==
    \/ NextLenis
    \/ NextBreathing
    \/ NextToggle
    \/ NextScrub
    \/ NextPin
    \/ NextCounter
    \/ NextLag
    \/ NextFrameOrder
    \/ NextWriters
    \/ NextNull
    \/ NextFault
    \/ NextSectionCtx
    \/ NextGsapCtx
    \/ NextMask
    \/ NextLenisEase
    \/ NextCarousel
    \/ NextNavbar

Spec == Init /\ [][Next]_vars
SpecLenis == Init /\ [][NextLenis]_vars
SpecBreathing == Init /\ [][NextBreathing]_vars
SpecToggle == Init /\ [][NextToggle]_vars
SpecScrub == Init /\ [][NextScrub]_vars
SpecPin == Init /\ [][NextPin]_vars
SpecCounter == Init /\ [][NextCounter]_vars
SpecLag == Init /\ [][NextLag]_vars
SpecFrameOrder == Init /\ [][NextFrameOrder]_vars
SpecWriters == Init /\ [][NextWriters]_vars
SpecNull == Init /\ [][NextNull]_vars
SpecFault == Init /\ [][NextFault]_vars
SpecSectionCtx == Init /\ [][NextSectionCtx]_vars
SpecGsapCtx == Init /\ [][NextGsapCtx]_vars
SpecMask == Init /\ [][NextMask]_vars
SpecLenisEase == Init /\ [][NextLenisEase]_vars
SpecCarousel == Init /\ [][NextCarousel]_vars
SpecNavbar == Init /\ [][NextNavbar]_vars

(***************************************************************************)
(* Claims                                                                  *)
(***************************************************************************)

\* C1: when LenisProvider unmounts, its cleanup releases the frame-loop
\* subscription: no listener of a destroyed Lenis instance is left on
\* gsap.ticker, and no ticker frame calls raf on a destroyed instance.
C1_TickerReleasedOnUnmount ==
    /\ \A i \in DOMAIN ticker : ticker[i] \notin lenisDestroyed
    /\ rafCalledOn \cap lenisDestroyed = {}

\* C2: after any sequence of mounts and unmounts the number of frame
\* callbacks the provider has on gsap.ticker equals the number of mounted
\* providers (at most one); registrations never accumulate.
C2_OneCallbackPerMountedProvider ==
    Len(ticker) = (IF providerMounted THEN 1 ELSE 0)

\* C3: once a section's cleanup (ctx.revert()) has run, no tween the section
\* created is active or writes to its elements on a later frame, the
\* tweens started by handleMouseEnter / handleMouseLeave included.
C3_NoTweenAfterRevert ==
    bsReverted =>
        /\ bsCtx = {}
        /\ bsIdle = {}
        /\ \A n \in Nodes : bsHover[n].kind = "none" /\ bsWriters[n] = {}

\* the tween is in its played-forward state: the region is activated
TgPlayed == tgKind # "none" /\ ~tgPaused /\ ~tgReversed

\* C4: for a registration with toggleActions "play none none reverse"
\* (fadeInUp, staggerFadeIn, counterAnimation, maskReveal) the region is
\* activated exactly while the offset is past the start boundary: it flips
\* only in a frame in which the offset crosses the boundary, the playhead
\* then runs forward to the end (progress 1) and, after the offset has come
\* back, runs backward to 0; crossing the end boundary flips nothing.
C4_Settled ==
    tgKind \in HelperKinds =>
        /\ TgPlayed <=> scrollY > TgStart
        /\ tgSince >= TgDuration(tgKind) + TgDelay(tgKind) =>
              tgTime = (IF scrollY > TgStart THEN TgDuration(tgKind) ELSE 0)

C4_Step ==
    (tgKind \in HelperKinds /\ tgKind' = tgKind) =>
        /\ (TgPlayed' # TgPlayed) => ((scrollY <= TgStart) # (scrollY' <= TgStart))
        /\ (TgPlayed /\ TgPlayed') => tgTime' >= tgTime
        /\ (~TgPlayed /\ ~TgPlayed') => tgTime' <= tgTime

C4_ToggleReverse == []C4_Settled /\ [][C4_Step]_vars

\* the offset went up through the start boundary and came back, and the
\* tween has run back to its start
C4_Witness ==
    /\ tgKind \in HelperKinds
    /\ tgCrossings >= 2
    /\ scrollY <= TgStart
    /\ ~TgPlayed
    /\ tgTime = 0
    /\ tgSince >= TgDuration(tgKind)

\* C5: every scroll-triggered one-shot animation, the separator reveals and
\* the CharactersSection header reveals included, is back in its
\* pre-animation state once the offset is back above its start boundary and
\* the tween has had its full duration to run.
C5_EveryOneShotReverses ==
    (/\ tgKind # "none"
     /\ scrollY <= TgStart
     /\ tgSince >= TgDuration(tgKind) + TgDelay(tgKind)) => tgTime = 0

C6_Settled ==
    scKind # "none" =>
        /\ scTrig = ScTarget
        /\ scKind \in {"worldOverlay", "ctaOverlay"} => scProg = ScTarget
        /\ scSince >= ScrubSmoothing(scKind) => scProg = ScTarget

C6_Step ==
    (scKind # "none" /\ scKind' = scKind /\ ScrubSmoothing(scKind) # 0) =>
        \/ scProg <= scProg' /\ scProg' <= scTo
        \/ scTo <= scProg' /\ scProg' <= scProg

C7_PinnedTranslation ==
    pnKind # "none" =>
        IF pnStart <= scrollY /\ scrollY <= pnEnd
        THEN /\ ContainerViewportTop = 0
             /\ PnX <= 0
             /\ -PnX = scrollY - pnStart
             /\ scrollY = pnEnd => -PnX = pnScrollWidth
        ELSE ~pnPinned

\* C8: after a viewport resize the pin range's length and the translation
\* reached at progress 1 both equal the current
\* scrollContent.scrollWidth - container.clientWidth.
C8_GeometryFollowsResize ==
    (pnKind # "none" /\ pnResized) =>
        /\ PnRange = pnContentW - pnClientW
        /\ -PinXTarget(pnScrollWidth, pnContentW, pnClientW) = pnContentW - pnClientW

CtPlayed == ctKind # "none" /\ ~ctPaused /\ ~ctReversed

C10_PlainDecimalText ==
    (ctKind # "none" /\ ctShown # -1) =>
        ctText = ctPrefix \o Decimal(ctShown) \o ctSuffix

\* C11: with the provider mounted, a ticker frame that arrives after a stall
\* (more than gsap's default ceiling of 500 ms since the previous frame)
\* advances the tweens and the Lenis animation by no more than one frame's
\* worth of time (33 ms), not by the stalled interval.
C11_StallClamped ==
    (lgMounted /\ lgElapsed > GsapDefaultLag.threshold)
        => lgApplied <= GsapDefaultLag.adjustedLag

\* the steps of a completed frame in which the scroll offset moved
FoFrameDone ==
    /\ foPc = 0
    /\ foKind # "none"
    /\ "update" \in Range(foOrder)

\* C12: in every completed ticker frame the scroll-state update (lenis.raf)
\* comes first, then ScrollTrigger.update, then the application of tween
\* progress, and the progress applied in the frame derives from the offset
\* that frame's lenis.raf produced.
C12_FrameOrder ==
    FoFrameDone =>
        /\ foOrder = <<"raf", "update", "apply">>
        /\ foApplied = foScroll

\* C13: while Lenis is running it is the only writer of the document scroll
\* position: in no frame does anything else (the smooth scroll started by a
\* Navbar link, a Hero button or the FinalCTA button) write it.
C13_SingleScrollWriter ==
    swMounted => swWriters \subseteq {"lenis"}

\* C14: a helper called with a null target, trigger or container raises no
\* exception, neither while registering nor on any later frame.
C14_NullTargetNoOp ==
    (nlHelper # "none" /\ (nlNullTarget \/ nlNullTrigger)) => nlThrown = "none"

\* the pinned region's range is empty: scrollContent.scrollWidth equals (or
\* falls short of) container.clientWidth
PnEmptyRange == pnKind # "none" /\ PnRange = 0

\* C15 (as stated): whenever the region's range is empty its progress is 1.0.
C15_EmptyRangeFullyActive ==
    PnEmptyRange => pnTrig = PnDen

\* C15: when the region's range is empty its progress is defined at every
\* offset: 0 while the offset is before the region's start, and 1.0 from the
\* start on, including the offset equal to start and end where the quotient
\* would be 0/0.
C15_EmptyRangeProgress ==
    PnEmptyRange =>
        /\ pnTrig \in {0, PnDen}
        /\ scrollY >= pnStart => pnTrig = PnDen
        /\ scrollY < pnStart => pnTrig = 0

C15_Witness ==
    /\ PnEmptyRange
    /\ pnScrollWidth = 0
    /\ scrollY = pnStart
    /\ pnTrig = PnDen

\* C16: when the registration or the update of one region throws, every
\* other region of the section is registered all the same and is driven on
\* every later frame, and the frame's scroll update still runs.
C16_FailureIsolated ==
    frSection # "none" =>
        /\ \A i \in FrIndices(frSection) : i # frFaultAt => i \in frRegistered
        /\ frTime > 0 =>
              /\ \A i \in frRegistered : i # frUpdateFault => i \in frDriven
              /\ frRafRan

\* C17: when a section's registration was skipped or torn down, every
\* element the section animates shows its content fully, the elements whose
\* markup starts hidden (class opacity-0) included.
C17_StaticEndState ==
    sxPhase \in {"skipped", "reverted"} =>
        \A el \in SxElems(sxSection) : Revealed(el, sxStyle[el])

\* C18: disposing of a section's registrations leaves every element's style
\* as it was at that moment.
C18_DisposalKeepsStyle ==
    [][sxReverts' = sxReverts + 1 => sxStyle' = sxStyle]_vars

\* a cleanup that runs on a context already reverted
SxSecondRevert == sxPhase = "reverted" /\ sxReverts' = sxReverts + 1

C20_Settled ==
    sxPhase = "reverted" => (sxData = {} /\ sxLive = {} /\ sxTriggers = {} /\ ~sxPlaying)

C20_Step ==
    SxSecondRevert =>
        UNCHANGED <<sxSection, sxPhase, sxData, sxLive, sxTriggers, sxStyle, sxTime,
                    sxPlaying>>

\* C20: after a section's cleanup no tween of the section is live and no
\* trigger of it is registered, so no later frame or scroll changes its
\* elements; running the cleanup again changes nothing.
C20_IdempotentTeardown == []C20_Settled /\ [][C20_Step]_vars

C20_Witness ==
    /\ sxPhase = "reverted"
    /\ sxReverts = 2
    /\ sxSection \in {"hero", "impact"}
    /\ sxTime > 0
    /\ sxTime < SxEnd(sxSection)

\* C19: once the context returned by createGsapContext has been reverted, no
\* tween the component created with the helpers is live and none of their
\* scroll triggers is registered.
C19_ContextCleansUp ==
    gcCtx = "reverted" => (gcLive = {} /\ gcTriggers = {})


\* the playhead of the toggle tween is at rest: paused, played to its end, or
\* run back to its start
TgAtRest ==
    \/ tgPaused
    \/ TgPlayed /\ tgDelayLeft = 0 /\ tgTime = TgDuration(tgKind)
    \/ tgReversed /\ tgTime = 0

\* C21: a frame in which the scroll offset and the geometry are what they
\* were on the frame before re-triggers nothing: the trigger's zone, the
\* tween's paused and reversed flags and the count of boundary crossings are
\* unchanged, and a tween at rest keeps its playhead.
C21_RedundantFrame ==
    (tgKind # "none" /\ tgKind' = tgKind /\ tgTop' = tgTop /\ scrollY' = scrollY) =>
        /\ tgZone' = tgZone
        /\ tgPaused' = tgPaused
        /\ tgReversed' = tgReversed
        /\ tgCrossings' = tgCrossings
        /\ TgAtRest => (tgTime' = tgTime /\ TgAtRest')

C21_Idempotent == [][C21_RedundantFrame]_vars

\* a played region on which frames have kept coming for the tween's whole
\* length since the offset last crossed the boundary
C21_Witness ==
    /\ TgPlayed
    /\ scrollY > TgStart
    /\ tgTime = TgDuration(tgKind)
    /\ tgSince = TgDuration(tgKind) + TgDelay(tgKind)
    /\ tgZone = Zone(scrollY, TgStart, TgEnd)


\* C22: the mask reveal's window has its left edge at 0 (and its top and
\* bottom insets at 0) at all times and shows a part of the width between 0%
\* and 100%: nothing at progress 0, everything at progress 1, and during
\* forward playback the part shown never shrinks.
C22_Window ==
    mkKind # "none" =>
        /\ mkClip[4] = 0
        /\ mkClip[1] = 0 /\ mkClip[3] = 0
        /\ MaskVisible \in 0..1000000
        /\ mkTime = 0 => MaskVisible = 0
        /\ mkTime = mkDuration => MaskVisible = 1000000

C22_Forward ==
    (mkKind # "none" /\ mkKind' = mkKind /\ ~mkPaused' /\ ~mkReversed') =>
        1000000 - (mkClip'[2] + mkClip'[4]) >= MaskVisible

C22_MaskReveal == []C22_Window /\ [][C22_Forward]_vars

\* a maskReveal played to its end and a window half open on the way
C22_Witness ==
    /\ mkKind = "maskReveal"
    /\ ~mkPaused /\ ~mkReversed
    /\ mkTime = mkDuration
    /\ mkClip = <<0, 0, 0, 0>>


Abs(x) == IF x < 0 THEN -x ELSE x

\* the eased fraction stays in range and reaches exactly 1 when the duration
\* has elapsed; the offset lies between the animation's start and its target
\* and is the target once the duration has elapsed
C23_Range ==
    leMounted =>
        /\ leEased # -1 =>
              /\ leEased \in 0..EaseScale
              /\ leTime = LeDuration => (leEased = EaseScale /\ leValue = leTo)
        /\ leEased = -1 /\ leRunning => leValue = leFrom
        /\ leValue \in Min(leFrom, leTo)..Max(leFrom, leTo)
        /\ ~leRunning => leValue = leTo

\* within one animation the eased fraction never decreases and the offset
\* never moves away from the target
C23_Monotone ==
    (leMounted /\ leMounted' /\ leInputs' = leInputs) =>
        /\ (leEased # -1 /\ leEased' # -1) => leEased' >= leEased
        /\ Abs(leTo' - leValue') <= Abs(leTo - leValue)

\* the statement that the eased fraction is 0 at t = 0
C23_ZeroAtStart == (leMounted /\ leEased # -1 /\ leTime = 0) => leEased = 0

C23_EasedFromZero == []C23_Range /\ []C23_ZeroAtStart /\ [][C23_Monotone]_vars

\* C23: with the easing min(1, 1.001 - 2^(-10 t)) and duration 1.2 s the
\* eased fraction is 0.001 (not 0) at t = 0, never decreases, never exceeds
\* 1 and is exactly 1 once the duration has elapsed; the scroll offset lies
\* between the animation's start and its target, moves monotonically toward
\* the target without overshoot and equals the target once the duration
\* has elapsed.
C23_EasedConvergence ==
    /\ []C23_Range
    /\ []((leMounted /\ leEased # -1 /\ leTime = 0) => leEased = EaseScale \div 1000)
    /\ [][C23_Monotone]_vars

\* an animation started before the instance's first raf call: the call
\* advances it by 0 and applies the easing at t = 0
C23_Witness ==
    /\ leMounted
    /\ leRunning
    /\ leTime = 0
    /\ leEased = EaseScale \div 1000
    /\ leValue = LeValueAt(leFrom, leTo, leEased)
    /\ leTo # leFrom


\* the idle pulse runs on every node once no hover tween is left
C24_IdleResumes ==
    (bsMounted /\ bsHovered = 0 /\ \A n \in Nodes : bsHover[n].kind = "none") =>
        bsIdle = Nodes

\* on a frame rendered while a node is hovered the idle pulse does not write
\* that node's scale
C24_HoverWins ==
    (bsMounted /\ bsHovered # 0 /\ bsHovered' = bsHovered
        /\ bsWriters' # bsWriters) =>
        "idle" \notin bsWriters'[bsHovered]

\* C24: in BreathingSection the hover animation is authoritative over the
\* idle pulse on scale: while a node is hovered the idle pulse does not drive
\* that node's scale, and after the pointer has left the idle pulse runs
\* again on every node.
C24_HoverAuthoritative == []C24_IdleResumes /\ [][C24_HoverWins]_vars


C25_InRange == caActive \in 0..(NumCharacters - 1)

\* the step of an advancing operation wraps from the last index to 0, that
\* of a retreating operation from 0 to the last index; otherwise the index
\* moves by one
C25_OneStep ==
    (caVars' # caVars) =>
        /\ caOp' \in {"next", "dragNext", "auto"} =>
              caActive' = (IF caActive = NumCharacters - 1 THEN 0 ELSE caActive + 1)
        /\ caOp' \in {"prev", "dragPrev"} =>
              caActive' = (IF caActive = 0 THEN NumCharacters - 1 ELSE caActive - 1)
        /\ caOp' \notin {"next", "dragNext", "auto", "prev", "dragPrev"} =>
              caActive' = caActive

\* C25: the carousel's activeIndex is always an integer in
\* [0, CHARACTERS.length - 1]; next wraps from the last index to 0, previous
\* from 0 to the last index, and each operation moves the index by exactly
\* one step modulo the length.
C25_IndexWraps == []C25_InRange /\ [][C25_OneStep]_vars

\* next from the last card has wrapped to the first
C25_Witness ==
    /\ caOp = "next"
    /\ caActive = 0
    /\ caReset >= 1

\* C26: while the pointer is over the carousel no automatic advance occurs,
\* whatever the order of the mouseenter event, the pending interval tick and
\* the effect's cleanup.
C26_PausedWhileHovered == caOp = "auto" => ~caHover

C29_Rule ==
    caOp \in {"dragNext", "dragPrev", "dragNone"} =>
        LET swipe == Abs(caDragOffset) * caDragVelocity
            toNext == swipe < -SwipeThreshold \/ caDragOffset < -SwipeThreshold
            toPrev == swipe > SwipeThreshold \/ caDragOffset > SwipeThreshold
        IN /\ caOp = "dragNext" <=> toNext
           /\ caOp = "dragPrev" <=> (~toNext /\ toPrev)

\* a drag displaced to the left never goes to the previous card, one
\* displaced to the right never to the next
C29_Direction ==
    /\ (caOp = "dragPrev") => ~(caDragOffset < 0)
    /\ (caOp = "dragNext") => ~(caDragOffset > 0)

\* one drag moves the index by at most one step, in the direction decided
C29_AtMostOneStep ==
    (caVars' # caVars /\ caOp' \in {"dragNext", "dragPrev", "dragNone"}) =>
        caActive' = (IF caOp' = "dragNext" THEN NextIndex(caActive)
                     ELSE IF caOp' = "dragPrev" THEN PrevIndex(caActive)
                     ELSE caActive)

C29_DirectionByOffset ==
    [](C29_Rule /\ C29_Direction) /\ [][C29_AtMostOneStep]_vars

\* the rule, and when a drag goes against its displacement
C29_Amended ==
    /\ C29_Rule
    /\ (caOp = "dragPrev" /\ caDragOffset < 0) =>
          /\ caDragOffset >= -SwipeThreshold
          /\ caDragVelocity > 0
          /\ Abs(caDragOffset) * caDragVelocity > SwipeThreshold
    /\ (caOp = "dragNext" /\ caDragOffset > 0) =>
          /\ caDragVelocity < 0
          /\ Abs(caDragOffset) * caDragVelocity < -SwipeThreshold

\* C29: on drag end, with swipe = |offset.x| * velocity.x, the carousel goes
\* to next if swipe < -100 or offset.x < -100, otherwise to previous if
\* swipe > 100 or offset.x > 100, otherwise stays; one drag moves the index
\* by at most one step; a drag displaced to the left by more than 100 never
\* goes to previous, and a drag goes against its displacement only when it
\* is released moving the other way with |swipe| > 100.
C29_DragRule == []C29_Amended /\ [][C29_AtMostOneStep]_vars

\* a card dragged 50 to the left and released moving right: previous
C29_Witness ==
    /\ caOp = "dragPrev"
    /\ caDragOffset < 0
    /\ caDragVelocity > 0


\* C30: after every Navbar scroll event the navbar is hidden exactly when
\* the position increased since the previous event and is above 200, and
\* isScrolled holds exactly when the position is above 50; an event that
\* hides the navbar closes the mobile menu in the same step, an event that
\* shows it leaves mobileOpen as it was.
C30_SmartScroll ==
    nvOp = "scroll" =>
        /\ nvHidden <=> (nvLast > nvPrevLast /\ nvLast > 200)
        /\ nvScrolled <=> nvLast > 50
        /\ nvHidden => ~nvMobileOpen
        /\ ~nvHidden => nvMobileOpen = nvPrevOpen

\* a downward scroll past 200 with the mobile menu open: hidden and closed
C30_Witness ==
    /\ nvOp = "scroll"
    /\ nvHidden
    /\ nvPrevOpen
    /\ ~nvMobileOpen
    /\ nvLast > nvPrevLast

=============================================================================
